---------------------------- MODULE Spec2Model ----------------------------
(***************************************************************************)
(* Model of the shock impedance-match tool (IM_module.py, IM_app.py).      *)
(*                                                                         *)
(* Floating-point quantities are carried in fixed point, with floor        *)
(* division where the code divides:                                        *)
(*   velocities (up, Us, c0, impact velocity)   10 m/s                     *)
(*   pressure                                    5e7 Pa                    *)
(*   specific volume                             1e-7 m3/kg                *)
(*   specific energy  (pressure*volume)          5 J/kg                    *)
(*   density (rho0, 1/V)                         1 kg/m3                   *)
(*   s1 in hundredths, s2 in 1e-5 s/m (d = 0), g0 and Gamma in tenths.     *)
(* NaN stands for every non-finite float (nan, +-inf): arithmetic on it    *)
(* gives NaN and every comparison with it is false, as for numpy's nan.    *)
(* Every material of the model's database has d = 0, so MakeHugoniot's     *)
(* universal-liquid branch (exp) is outside the inputs the model draws.    *)
(***************************************************************************)
EXTENDS Integers, Sequences, FiniteSets, TLC

(***************************************************************************)
(* Bounds of the model.                                                    *)
(***************************************************************************)
\* number of intervals of the general particle-velocity grid (uparr_length)
UparrLength == 12
\* number of intervals of the longer grid used with the M-G model
UparrLengthMG == 14

(***************************************************************************)
(* NaN-aware arithmetic.                                                   *)
(***************************************************************************)
NaN == -999999999

IsNaN(a) == a = NaN

NAdd(a, b) == IF a = NaN \/ b = NaN THEN NaN ELSE a + b
NSub(a, b) == IF a = NaN \/ b = NaN THEN NaN ELSE a - b
NMul(a, b) == IF a = NaN \/ b = NaN THEN NaN ELSE a * b
\* a/b: a zero divisor gives a non-finite float
NDiv(a, b) == IF a = NaN \/ b = NaN \/ b = 0 THEN NaN ELSE a \div b
NNeg(a) == IF a = NaN THEN NaN ELSE -a

NLt(a, b) == a # NaN /\ b # NaN /\ a < b
NLe(a, b) == a # NaN /\ b # NaN /\ a <= b
NGt(a, b) == NLt(b, a)
NGe(a, b) == NLe(b, a)

\* numpy's min/max of a pair: nan if either is nan
NMin(a, b) == IF a = NaN \/ b = NaN THEN NaN ELSE IF a <= b THEN a ELSE b
NMax(a, b) == IF a = NaN \/ b = NaN THEN NaN ELSE IF a >= b THEN a ELSE b

Abs(a) == IF a < 0 THEN -a ELSE a

\* floor of the square root of n >= 0
RECURSIVE SqrtBis(_, _, _)
SqrtBis(n, lo, hi) ==
    IF lo >= hi THEN lo
    ELSE LET mid == (lo + hi + 1) \div 2
         IN  IF mid * mid <= n THEN SqrtBis(n, mid, hi) ELSE SqrtBis(n, lo, mid - 1)

ISqrt(n) == SqrtBis(n, 0, IF n < 46340 THEN n ELSE 46340)

NSqrt(a) == IF a = NaN \/ a < 0 THEN NaN ELSE ISqrt(a)

\* np.flip
Flip(s) == [i \in 1..Len(s) |-> s[Len(s) + 1 - i]]

\* max(arr) of a finite array
RECURSIVE SeqMaxFrom(_, _, _)
SeqMaxFrom(s, i, m) ==
    IF i > Len(s) THEN m
    ELSE SeqMaxFrom(s, i + 1, IF s[i] > m THEN s[i] ELSE m)

SeqMax(s) == SeqMaxFrom(s, 2, s[1])

(***************************************************************************)
(* Data model: EOS_Line, EOS_Point, Material.                              *)
(***************************************************************************)
\* EOS_Line(): every array is the scalar 0. until a curve is built; set tells
\* whether the arrays are numpy arrays (TRUE) or still that scalar (FALSE)
EOS_Line ==
    [set |-> FALSE, uparr |-> <<>>, uparr2 |-> <<>>, usarr |-> <<>>,
     parr |-> <<>>, varr |-> <<>>, earr |-> <<>>, garr |-> <<>>]

EOS_Point == [p |-> 0, v |-> 0, e |-> 0, up |-> 0]

\* Material(): parameters zero, curves and states empty
Material ==
    [name |-> 0, rho0 |-> 0, v0 |-> 0, c0 |-> 0, s1 |-> 0, s2 |-> 0, d |-> 0,
     g0 |-> 0, q |-> 0, e0 |-> 0,
     hug |-> EOS_Line, im1 |-> EOS_Point, im2 |-> EOS_Point,
     isen |-> EOS_Line, reshock |-> EOS_Line]

\* The materials database (materials-data.csv after ReadMaterials), in the
\* model's units.  1: aluminium-like, 2: slightly stiffer than 1,
\* 3: water-like with Gamma unset, 4: quadratic fit whose shock velocity turns
\* negative inside the grid, 5: dense, with q = 2, 6: as 1 with a negative
\* Gamma.
matdata ==
    << [rho0 |-> 2700, c0 |-> 535, s1 |-> 116, s2 |-> 0, d |-> 0, g0 |-> 20, q |-> 1],
       [rho0 |-> 2800, c0 |-> 540, s1 |-> 118, s2 |-> 0, d |-> 0, g0 |-> 20, q |-> 1],
       [rho0 |-> 1000, c0 |-> 150, s1 |-> 200, s2 |-> 0, d |-> 0, g0 |-> 0,  q |-> 0],
       [rho0 |-> 2000, c0 |-> 200, s1 |-> 100, s2 |-> -50, d |-> 0, g0 |-> 10, q |-> 1],
       [rho0 |-> 8000, c0 |-> 400, s1 |-> 150, s2 |-> 0, d |-> 0, g0 |-> 20, q |-> 2],
       [rho0 |-> 2700, c0 |-> 535, s1 |-> 116, s2 |-> 0, d |-> 0, g0 |-> -10, q |-> 3],
       [rho0 |-> 2000, c0 |-> 100, s1 |-> 110, s2 |-> 0, d |-> 0, g0 |-> 40, q |-> 0] >>

\* DefineParamsID: copy the database row into the material
DefineParamsID(m, id) ==
    [m EXCEPT !.name = id,
              !.rho0 = matdata[id].rho0,
              !.v0 = NDiv(10000000, matdata[id].rho0),
              !.c0 = matdata[id].c0,
              !.s1 = matdata[id].s1,
              !.s2 = matdata[id].s2,
              !.d = matdata[id].d,
              !.g0 = matdata[id].g0,
              !.q = matdata[id].q]

(***************************************************************************)
(* Hugoniot Builder.                                                       *)
(***************************************************************************)
\* np.arange(0,length+1)/length*vel*factor
UpGrid(length, vel, factor) ==
    [k \in 1..(length + 1) |-> ((k - 1) * vel * factor) \div length]

\* x^q for a fixed-point ratio x = num/den and a whole exponent q, times scale
RECURSIVE PowRatio(_, _, _, _)
PowRatio(scale, num, den, q) ==
    IF q <= 0 THEN scale
    ELSE PowRatio(NDiv(NMul(scale, num), den), num, den, q - 1)

\* UsOf with the linear term subtracted
UsOf_minus(m, up) == m.c0 - (m.s1 * up) \div 100 + (m.s2 * up * up) \div 10000

\* Us on the line/quadratic branch (d = 0)
UsOf(m, up) == m.c0 + (m.s1 * up) \div 100 + (m.s2 * up * up) \div 10000

\* MakeHugoniot(uparr), ihedbool = False; returns the material, whose g0 and q
\* are overwritten by the defaults when g0 <= 0
MakeHugoniot(m, uparr) ==
    LET n == Len(uparr)
        usarr == [k \in 1..n |-> UsOf(m, uparr[k])]
        parr == [k \in 1..n |-> (m.rho0 * ((uparr[k] * usarr[k]) \div 100)) \div 5000]
        varr == [k \in 1..n |->
                    NSub(m.v0, NDiv(NMul(m.v0, uparr[k]), usarr[k]))]
        earr == [k \in 1..n |->
                    NAdd(m.e0, NDiv(NMul(parr[k], NSub(m.v0, varr[k])), 2))]
        g0 == IF m.g0 <= 0 THEN 10 ELSE m.g0
        q == IF m.g0 <= 0 THEN 1 ELSE m.q
        garr == [k \in 1..n |-> PowRatio(g0, varr[k], m.v0, q)]
    IN  [m EXCEPT !.g0 = g0, !.q = q,
                  !.hug = [set |-> TRUE, uparr |-> uparr, uparr2 |-> <<>>,
                           usarr |-> usarr, parr |-> parr, varr |-> varr,
                           earr |-> earr, garr |-> garr]]

(***************************************************************************)
(* np.interp(x, xp, fp) for one x.                                         *)
(***************************************************************************)
\* the bisection that ends binary_search_with_guess; 0-based indices
RECURSIVE Bisect(_, _, _, _)
Bisect(key, arr, imin, imax) ==
    IF imin >= imax THEN imin - 1
    ELSE LET imid == imin + ((imax - imin) \div 2)
         IN  IF NGe(key, arr[imid + 1]) THEN Bisect(key, arr, imid + 1, imax)
             ELSE Bisect(key, arr, imin, imid)

RECURSIVE LinSearch(_, _, _)
LinSearch(key, arr, i) ==
    IF i < Len(arr) /\ NGe(key, arr[i + 1]) THEN LinSearch(key, arr, i + 1) ELSE i - 1

\* binary_search_with_guess(key, arr, len, guess = 0): -1, len, or the index j
\* (0-based) the search ends on
BinarySearch(key, arr) ==
    LET len == Len(arr)
        guess == 1
    IN  IF NGt(key, arr[len]) THEN len
        ELSE IF NLt(key, arr[1]) THEN -1
        ELSE IF len <= 4 THEN LinSearch(key, arr, 1)
        ELSE IF NLt(key, arr[guess + 1])
             THEN IF NGe(key, arr[guess]) THEN guess - 1
                  ELSE Bisect(key, arr, 0, guess - 1)
        ELSE IF NLt(key, arr[guess + 2]) THEN guess
        ELSE IF NLt(key, arr[guess + 3]) THEN guess + 1
        ELSE IF guess < len - 8 - 1 /\ NLt(key, arr[guess + 8 + 1])
             THEN Bisect(key, arr, guess + 2, guess + 8)
        ELSE Bisect(key, arr, guess + 2, len)

Interp(x, xp, fp) ==
    IF x = NaN THEN NaN
    ELSE LET len == Len(xp)
             j == BinarySearch(x, xp)
         IN  IF j = -1 THEN fp[1]
             ELSE IF j = len THEN fp[len]
             ELSE IF j = len - 1 THEN fp[len]
             ELSE IF xp[j + 1] = x THEN fp[j + 1]
             ELSE LET r == NAdd(fp[j + 1],
                                NDiv(NMul(NSub(fp[j + 2], fp[j + 1]), NSub(x, xp[j + 1])),
                                     NSub(xp[j + 2], xp[j + 1])))
                  IN  IF r = NaN /\ fp[j + 1] = fp[j + 2] THEN fp[j + 1] ELSE r

(***************************************************************************)
(* Curve Intersection Solver.                                              *)
(***************************************************************************)
\* RectOverlap with strict comparisons: boxes that only touch do not overlap
RectOverlap_strict(x1, y1, x2, y2, i, j) ==
    /\ NLt(NMin(x1[i], x1[i + 1]), NMax(x2[j], x2[j + 1]))
    /\ NGt(NMax(x1[i], x1[i + 1]), NMin(x2[j], x2[j + 1]))
    /\ NLt(NMin(y1[i], y1[i + 1]), NMax(y2[j], y2[j + 1]))
    /\ NGt(NMax(y1[i], y1[i + 1]), NMin(y2[j], y2[j + 1]))

\* _rectangle_intersection_: do the bounding boxes of segment i of curve 1 and
\* segment j of curve 2 overlap (C1 & C2 & C3 & C4)
RectOverlap(x1, y1, x2, y2, i, j) ==
    /\ NLe(NMin(x1[i], x1[i + 1]), NMax(x2[j], x2[j + 1]))
    /\ NGe(NMax(x1[i], x1[i + 1]), NMin(x2[j], x2[j + 1]))
    /\ NLe(NMin(y1[i], y1[i + 1]), NMax(y2[j], y2[j + 1]))
    /\ NGe(NMax(y1[i], y1[i + 1]), NMin(y2[j], y2[j + 1]))

\* SolvePair reading the point off with the second curve's parameter t2
SolvePair_t2(x1, y1, x2, y2, i, j) ==
    LET dx1 == x1[i + 1] - x1[i]
        dy1 == y1[i + 1] - y1[i]
        dx2 == x2[j + 1] - x2[j]
        dy2 == y2[j + 1] - y2[j]
        ex == x2[j] - x1[i]
        ey == y2[j] - y1[i]
        det0 == dx2 * dy1 - dx1 * dy2
        sg == IF det0 < 0 THEN -1 ELSE 1
        det == sg * det0
        n1 == sg * (dx2 * ey - ex * dy2)
        n2 == sg * (dx1 * ey - dy1 * ex)
    IN  IF det = 0 THEN <<FALSE, 0, 0>>
        ELSE IF n1 >= 0 /\ n1 <= det /\ n2 >= 0 /\ n2 <= det
             THEN <<TRUE, x1[i] + (dx1 * n2) \div det, y1[i] + (dy1 * n2) \div det>>
             ELSE <<FALSE, 0, 0>>

\* SolvePair giving a singular system the start of the first segment
SolvePair_singular(x1, y1, x2, y2, i, j) ==
    LET dx1 == x1[i + 1] - x1[i]
        dy1 == y1[i + 1] - y1[i]
        dx2 == x2[j + 1] - x2[j]
        dy2 == y2[j + 1] - y2[j]
        ex == x2[j] - x1[i]
        ey == y2[j] - y1[i]
        det0 == dx2 * dy1 - dx1 * dy2
        sg == IF det0 < 0 THEN -1 ELSE 1
        det == sg * det0
        n1 == sg * (dx2 * ey - ex * dy2)
        n2 == sg * (dx1 * ey - dy1 * ex)
    IN  IF det = 0 THEN <<TRUE, x1[i], y1[i]>>
        ELSE IF n1 >= 0 /\ n1 <= det /\ n2 >= 0 /\ n2 <= det
             THEN <<TRUE, x1[i] + (dx1 * n1) \div det, y1[i] + (dy1 * n1) \div det>>
             ELSE <<FALSE, 0, 0>>

\* SolvePair accepting t1 and t2 in [0,1) only
SolvePair_halfopen(x1, y1, x2, y2, i, j) ==
    LET dx1 == x1[i + 1] - x1[i]
        dy1 == y1[i + 1] - y1[i]
        dx2 == x2[j + 1] - x2[j]
        dy2 == y2[j + 1] - y2[j]
        ex == x2[j] - x1[i]
        ey == y2[j] - y1[i]
        det0 == dx2 * dy1 - dx1 * dy2
        sg == IF det0 < 0 THEN -1 ELSE 1
        det == sg * det0
        n1 == sg * (dx2 * ey - ex * dy2)
        n2 == sg * (dx1 * ey - dy1 * ex)
    IN  IF det = 0 THEN <<FALSE, 0, 0>>
        ELSE IF n1 >= 0 /\ n1 < det /\ n2 >= 0 /\ n2 < det
             THEN <<TRUE, x1[i] + (dx1 * n1) \div det, y1[i] + (dy1 * n1) \div det>>
             ELSE <<FALSE, 0, 0>>

\* np.linalg.solve for one candidate pair and the in_range test: <<hit, x0, y0>>.
\* t1 = n1/det, t2 = n2/det; a singular system raises and is given T = inf.
SolvePair(x1, y1, x2, y2, i, j) ==
    LET dx1 == x1[i + 1] - x1[i]
        dy1 == y1[i + 1] - y1[i]
        dx2 == x2[j + 1] - x2[j]
        dy2 == y2[j + 1] - y2[j]
        ex == x2[j] - x1[i]
        ey == y2[j] - y1[i]
        det0 == dx2 * dy1 - dx1 * dy2
        sg == IF det0 < 0 THEN -1 ELSE 1
        det == sg * det0
        n1 == sg * (dx2 * ey - ex * dy2)
        n2 == sg * (dx1 * ey - dy1 * ex)
    IN  IF det = 0 THEN <<FALSE, 0, 0>>
        ELSE IF n1 >= 0 /\ n1 <= det /\ n2 >= 0 /\ n2 <= det
             THEN <<TRUE, x1[i] + (dx1 * n1) \div det, y1[i] + (dy1 * n1) \div det>>
             ELSE <<FALSE, 0, 0>>

\* Intersection(x1,y1,x2,y2): the points, in discovery order (segment of curve 1
\* outermost, as np.nonzero lists the candidate pairs)
Intersection(x1, y1, x2, y2) ==
    LET n1 == Len(x1) - 1
        n2 == Len(x2) - 1
        pair(k) == <<((k - 1) \div n2) + 1, ((k - 1) % n2) + 1>>
        T == [k \in 1..(n1 * n2) |->
                 IF RectOverlap(x1, y1, x2, y2, pair(k)[1], pair(k)[2])
                 THEN SolvePair(x1, y1, x2, y2, pair(k)[1], pair(k)[2])
                 ELSE <<FALSE, 0, 0>>]
        in_range == SelectSeq(T, LAMBDA t : t[1])
    IN  [k \in 1..Len(in_range) |-> <<in_range[k][2], in_range[k][3]>>]

(***************************************************************************)
(* Mie-Grueneisen Path Integrator.  Each operation returns                 *)
(* [m: the material after the call, ok: the returned flag, raised: whether *)
(* the call raised instead of returning].                                  *)
(***************************************************************************)
Returned(m, ok) == [m |-> m, ok |-> ok, raised |-> FALSE]
Raised(m) == [m |-> m, ok |-> FALSE, raised |-> TRUE]

\* np.where(cond)[0] for an array cond of booleans, 1-based
Where(cond) == SelectSeq([k \in 1..Len(cond) |-> k], LAMBDA k : cond[k])

\* -(dp/dV) > 0 as the floats decide it (dV = 0 gives +-inf or nan)
NegSlopePositive(dp, dV) ==
    /\ dp # NaN /\ dV # NaN
    /\ \/ dp < 0 /\ dV >= 0
       \/ dp > 0 /\ dV < 0

\* sqrt(-dp*dV) in velocity units
SqrtNegProd(dp, dV) == NSqrt(NDiv(NMul(NNeg(dp), dV), 20))

\* dp/sqrt(-dp/dV), which is sign(dp)*sqrt(-dp*dV)
DpOverImpedance(dp, dV) ==
    IF dp = NaN THEN NaN
    ELSE IF dp < 0 THEN NNeg(SqrtNegProd(dp, dV)) ELSE SqrtNegProd(dp, dV)

\* the isentrope pressure at grid index k from the neighbour state (pn, en)
\* across the signed volume step dv
IsenPressure(hug, k, pn, en, dv) ==
    LET V == hug.varr[k]
        g == hug.garr[k]
        X == NAdd(NSub(hug.earr[k], en), NDiv(NMul(pn, dv), 2))
    IN  NDiv(NSub(NMul(NMul(20, V), hug.parr[k]), NMul(NMul(2, X), g)),
             NSub(NMul(20, V), NMul(dv, g)))

\* the symmetric-impact test of lines 627 and 670
SymmetricTest(pstart, impvel) ==
    /\ pstart.up # NaN
    /\ (Abs(2 * pstart.up) - Abs(impvel)) * 100000 < Abs(impvel)

\* one step next to the departure index (lines 622-644 and 665-686)
IsenFirstStep(hug, isen, k, pstart, impvel, dv) ==
    IF NLe(dv, 0) \/ SymmetricTest(pstart, impvel)
    THEN [isen EXCEPT !.parr[k] = pstart.p, !.earr[k] = pstart.e,
                      !.uparr[k] = pstart.up, !.uparr2[k] = pstart.up]
    ELSE LET pk == IsenPressure(hug, k, pstart.p, pstart.e, dv)
             ek == NSub(pstart.e, NDiv(NMul(NAdd(pstart.p, pk), dv), 2))
             dp == NSub(pstart.p, pk)
             dV == NSub(pstart.v, isen.varr[k])
             upk == IF NegSlopePositive(dp, dV)
                    THEN NSub(pstart.up, DpOverImpedance(dp, dV))
                    ELSE isen.uparr[k]
             up2k == IF NegSlopePositive(dp, dV)
                     THEN NSub(pstart.up, DpOverImpedance(dp, dV))
                     ELSE isen.uparr2[k]
         IN  [isen EXCEPT !.parr[k] = pk, !.earr[k] = ek,
                          !.uparr[k] = upk, !.uparr2[k] = up2k]

\* the loop of lines 621-660, from index k down to 1 (first: k = istart-1)
RECURSIVE IsenDown(_, _, _, _, _, _)
IsenDown(hug, isen, k, first, pstart, impvel) ==
    IF k < 1 THEN isen
    ELSE IF first
    THEN IsenDown(hug,
                  IsenFirstStep(hug, isen, k, pstart, impvel,
                                NSub(isen.varr[k], pstart.v)),
                  k - 1, FALSE, pstart, impvel)
    ELSE LET dv == NSub(isen.varr[k], isen.varr[k + 1])
             pk == IsenPressure(hug, k, isen.parr[k + 1], isen.earr[k + 1], dv)
             ek == NSub(isen.earr[k + 1],
                        NDiv(NMul(NAdd(isen.parr[k + 1], pk), dv), 2))
             dp == NSub(isen.parr[k + 1], pk)
             dV == NSub(isen.varr[k + 1], isen.varr[k])
             pos == NegSlopePositive(dp, dV)
             upk == IF pos THEN NSub(isen.uparr[k + 1], DpOverImpedance(dp, dV))
                    ELSE isen.uparr[k + 1]
             up2k == IF pos THEN NSub(isen.uparr2[k + 1], SqrtNegProd(dp, dV))
                     ELSE isen.uparr2[k + 1]
         IN  IsenDown(hug,
                      [isen EXCEPT !.parr[k] = pk, !.earr[k] = ek,
                                   !.uparr[k] = upk, !.uparr2[k] = up2k],
                      k - 1, FALSE, pstart, impvel)

\* parr[i::] = nan and so on (lines 706-709)
NaNFrom(arr, k) == [i \in 1..Len(arr) |-> IF i >= k THEN NaN ELSE arr[i]]

\* the loop of lines 664-714, from index k up to the end (first: k = istart);
\* gives the curve and the flag the call returns: line 714, inside the loop,
\* sets MGIsuccess at the end of every iteration, so the loop running to its
\* end returns True, and so does the NaN fill, which is reached only after
\* the iteration for istart has completed (line 710 assigns another name,
\* MIGsuccess, and line 711 returns MGIsuccess as the iteration before left it)
RECURSIVE IsenUp(_, _, _, _, _, _)
IsenUp(hug, isen, k, first, pstart, impvel) ==
    IF k > Len(hug.parr) THEN [isen |-> isen, ok |-> TRUE]
    ELSE IF first
    THEN IsenUp(hug,
                IsenFirstStep(hug, isen, k, pstart, impvel,
                              NSub(pstart.v, isen.varr[k])),
                k + 1, FALSE, pstart, impvel)
    ELSE LET dv == NNeg(NSub(isen.varr[k], isen.varr[k - 1]))
             pk == IsenPressure(hug, k, isen.parr[k - 1], isen.earr[k - 1], dv)
             ek == NAdd(isen.earr[k - 1],
                        NDiv(NMul(NAdd(isen.parr[k - 1], pk), dv), 2))
             dp == NSub(isen.parr[k - 1], pk)
             dV == NSub(isen.varr[k - 1], isen.varr[k])
         IN  IF NegSlopePositive(dp, dV)
             THEN IsenUp(hug,
                         [isen EXCEPT !.parr[k] = pk, !.earr[k] = ek,
                                      !.uparr[k] = NSub(isen.uparr[k - 1],
                                                        DpOverImpedance(dp, dV)),
                                      !.uparr2[k] = NAdd(isen.uparr2[k - 1],
                                                         SqrtNegProd(dp, dV))],
                         k + 1, FALSE, pstart, impvel)
             ELSE [isen |-> [isen EXCEPT !.parr = NaNFrom(isen.parr, k),
                                         !.earr = NaNFrom(isen.earr, k),
                                         !.uparr = NaNFrom(isen.uparr, k),
                                         !.uparr2 = NaNFrom(isen.uparr2, k)],
                   ok |-> TRUE]

\* the isentrope is written in place, the flag is what the call returns
IsenWritten(m, r) == Returned([m EXCEPT !.isen = r.isen], r.ok)

\* MakeMGIsentrope without the test of lines 604-607
MakeMGIsentrope_nomax(m, pstart, usemgmodelbool, impvel) ==
    IF ~m.hug.set THEN Raised(m)                       \* len() of a float
    ELSE IF Len(m.hug.parr) <= 10 THEN Returned(m, FALSE)
    ELSE IF usemgmodelbool /\ impvel = 0 THEN Returned(m, FALSE)
    ELSE IF ~usemgmodelbool
    THEN Returned([m EXCEPT !.isen =
                      [set |-> TRUE, uparr |-> m.hug.uparr, uparr2 |-> m.hug.uparr,
                       usarr |-> <<>>, parr |-> m.hug.parr, varr |-> m.hug.varr,
                       earr |-> m.hug.earr, garr |-> m.hug.garr]], TRUE)
    ELSE LET n == Len(m.hug.parr)
             above == Where([k \in 1..n |-> NGt(m.hug.parr[k], pstart.p)])
             zeros == [k \in 1..n |-> 0]
             isen0 == [set |-> TRUE, uparr |-> zeros, uparr2 |-> zeros,
                       usarr |-> <<>>, parr |-> zeros, varr |-> m.hug.varr,
                       earr |-> zeros, garr |-> m.hug.garr]
         IN  IF above = <<>> THEN Raised(m)            \* [0][0] of an empty array
             ELSE LET istart == above[1]
                      down == IsenDown(m.hug, isen0, istart - 1, TRUE, pstart, impvel)
                  IN  IsenWritten(m, IsenUp(m.hug, down, istart, TRUE, pstart, impvel))

\* MakeMGIsentrope(pstart, usemgmodelbool, impvel)
MakeMGIsentrope(m, pstart, usemgmodelbool, impvel) ==
    IF ~m.hug.set THEN Raised(m)                       \* len() of a float
    ELSE IF Len(m.hug.parr) <= 10 THEN Returned(m, FALSE)
    ELSE IF usemgmodelbool /\ impvel = 0 THEN Returned(m, FALSE)
    ELSE IF ~usemgmodelbool
    THEN Returned([m EXCEPT !.isen =
                      [set |-> TRUE, uparr |-> m.hug.uparr, uparr2 |-> m.hug.uparr,
                       usarr |-> <<>>, parr |-> m.hug.parr, varr |-> m.hug.varr,
                       earr |-> m.hug.earr, garr |-> m.hug.garr]], TRUE)
    ELSE IF NGe(pstart.p, SeqMax(m.hug.parr)) THEN Returned(m, FALSE)
    ELSE LET n == Len(m.hug.parr)
             above == Where([k \in 1..n |-> NGt(m.hug.parr[k], pstart.p)])
             zeros == [k \in 1..n |-> 0]
             isen0 == [set |-> TRUE, uparr |-> zeros, uparr2 |-> zeros,
                       usarr |-> <<>>, parr |-> zeros, varr |-> m.hug.varr,
                       earr |-> zeros, garr |-> m.hug.garr]
         IN  IF above = <<>> THEN Raised(m)            \* [0][0] of an empty array
             ELSE LET istart == above[1]
                      down == IsenDown(m.hug, isen0, istart - 1, TRUE, pstart, impvel)
                  IN  IsenWritten(m, IsenUp(m.hug, down, istart, TRUE, pstart, impvel))

\* the M-G reshock pressure at grid index k (line 751)
ReshockPressure(m, k, pstart) ==
    LET V == m.hug.varr[k]
        g == m.hug.garr[k]
        Ph == m.hug.parr[k]
    IN  NDiv(NAdd(NMul(NMul(20, V), Ph),
                  NMul(NMul(NSub(pstart.p, Ph), NSub(m.v0, V)), g)),
             NSub(NMul(20, V), NMul(g, NSub(pstart.v, V))))

\* TrivialReshock masking the samples at the departure pressure as well
TrivialReshock_le(hug, pstart) ==
    [set |-> TRUE,
     uparr |-> [k \in 1..Len(hug.parr) |->
                   IF NLe(hug.parr[k], pstart.p) THEN NaN
                   ELSE NSub(NMul(2, pstart.up), hug.uparr[k])],
     uparr2 |-> hug.uparr,
     usarr |-> <<>>,
     parr |-> [k \in 1..Len(hug.parr) |->
                  IF NLe(hug.parr[k], pstart.p) THEN NaN ELSE hug.parr[k]],
     varr |-> hug.varr,
     earr |-> [k \in 1..Len(hug.parr) |->
                  IF NLe(hug.parr[k], pstart.p) THEN NaN ELSE hug.earr[k]],
     garr |-> hug.garr]

\* lines 727-736: the reshock curve in trivial mode, the Hugoniot mirrored
\* about the departure up and masked below the departure pressure
TrivialReshock(hug, pstart) ==
    [set |-> TRUE,
     uparr |-> [k \in 1..Len(hug.parr) |->
                   IF NLt(hug.parr[k], pstart.p) THEN NaN
                   ELSE NSub(NMul(2, pstart.up), hug.uparr[k])],
     uparr2 |-> hug.uparr,
     usarr |-> <<>>,
     parr |-> [k \in 1..Len(hug.parr) |->
                  IF NLt(hug.parr[k], pstart.p) THEN NaN ELSE hug.parr[k]],
     varr |-> hug.varr,
     earr |-> [k \in 1..Len(hug.parr) |->
                  IF NLt(hug.parr[k], pstart.p) THEN NaN ELSE hug.earr[k]],
     garr |-> hug.garr]

\* MakeReshockHug(pstart, usemgmodelbool)
MakeReshockHug(m, pstart, usemgmodelbool) ==
    IF ~m.hug.set THEN Raised(m)                       \* indexing a 0-d array
    ELSE LET n == Len(m.hug.parr)
             hug == m.hug
         IN
    IF ~usemgmodelbool
    THEN Returned([m EXCEPT !.reshock = TrivialReshock(hug, pstart)], TRUE)
    ELSE LET ind(k) == NGt(hug.parr[k], pstart.p)
             \* lines 743-752
             p1 == [k \in 1..n |-> IF ind(k) THEN ReshockPressure(m, k, pstart) ELSE 0]
             e1 == [k \in 1..n |->
                       IF ind(k)
                       THEN NAdd(pstart.e,
                                 NDiv(NMul(NAdd(p1[k], pstart.p),
                                           NSub(pstart.v, hug.varr[k])), 2))
                       ELSE 0]
             prod == [k \in 1..n |->
                         NMul(NSub(p1[k], pstart.p), NSub(pstart.v, hug.varr[k]))]
             good(k) == ind(k) /\ NGt(prod[k], 0)
             bad(k) == ind(k) /\ NLe(prod[k], 0)
             \* lines 754-763
             up2 == [k \in 1..n |->
                        IF good(k) THEN NSub(pstart.up, NSqrt(NDiv(prod[k], 20)))
                        ELSE IF bad(k) THEN NaN ELSE 0]
             upb2 == [k \in 1..n |->
                         IF good(k) THEN NAdd(pstart.up, NSqrt(NDiv(prod[k], 20)))
                         ELSE IF bad(k) THEN NaN ELSE 0]
             p2 == [k \in 1..n |-> IF bad(k) THEN NaN ELSE p1[k]]
             e2 == [k \in 1..n |-> IF bad(k) THEN NaN ELSE e1[k]]
             \* lines 764-769
             low(k) == NLt(p2[k], pstart.p)
             p3 == [k \in 1..n |-> IF low(k) THEN NaN ELSE p2[k]]
             \* lines 771-777: np.roll(parr, 1)
             hugshift == [k \in 1..n |-> IF k = 1 THEN p3[n] ELSE p3[k - 1]]
             roll(k) == NLt(NSub(p3[k], hugshift[k]), 0)
             gone(k) == low(k) \/ roll(k)
         IN  Returned([m EXCEPT !.reshock =
                 [set |-> TRUE,
                  uparr |-> [k \in 1..n |-> IF gone(k) THEN NaN ELSE up2[k]],
                  uparr2 |-> [k \in 1..n |-> IF gone(k) THEN NaN ELSE upb2[k]],
                  usarr |-> <<>>,
                  parr |-> [k \in 1..n |-> IF roll(k) THEN NaN ELSE p3[k]],
                  varr |-> hug.varr,
                  earr |-> [k \in 1..n |-> IF gone(k) THEN NaN ELSE e2[k]],
                  garr |-> hug.garr]], TRUE)

(***************************************************************************)
(* Interface Matcher.  IM_match returns [a, b: the two materials after the *)
(* call, ret: "True", "False", "None" (fell off the end) or "raise",       *)
(* called: the Path Integrator calls made, in order, each as <<name, what  *)
(* the call gave back>>].                                                  *)
(***************************************************************************)
\* what an integrator call gave back: its flag, or "raise"
Flag(r) == IF r.raised THEN "raise" ELSE IF r.ok THEN "True" ELSE "False"

\* 1./arr in kg/m3
Recip(a) == NDiv(10000000, a)

RecipArr(arr) == [k \in 1..Len(arr) |-> Recip(arr[k])]

\* the state written for a curve at the matched particle velocity
\* (lines 880-883 and the like): up, p from the intersection, v and e interpolated
PointOn(res1, xp, varr, earr) ==
    [up |-> res1[1], p |-> res1[2],
     v |-> Recip(Interp(res1[1], xp, RecipArr(varr))),
     e |-> Interp(res1[1], xp, earr)]

IMResult(a, b, ret, called) == [a |-> a, b |-> b, ret |-> ret, called |-> called]

\* IM_match_first with the impactor's Hugoniot not reflected about vel
IM_match_first_unreflected(a, b, vel) ==
    IF ~a.hug.set \/ ~b.hug.set THEN IMResult(a, b, "raise", <<>>)
    ELSE LET x2 == a.hug.uparr
             bx == b.hug.uparr
             by == b.hug.parr
             ay == a.hug.parr
             res == Intersection(bx, by, x2, ay)
         IN  IF res = <<>> THEN IMResult(a, b, "raise", <<>>)
             ELSE IMResult(
                    [a EXCEPT !.im1 = PointOn(res[1], a.hug.uparr, a.hug.varr, a.hug.earr)],
                    [b EXCEPT !.im1 = PointOn(res[1], b.hug.uparr, b.hug.varr, b.hug.earr)],
                    "True", <<>>)

\* IM_match_first with the projectile's curve reflected about the impact
\* velocity less the particle velocity an earlier call left in a.im1
IM_match_first_shifted(a, b, vel) ==
    IF ~a.hug.set \/ ~b.hug.set THEN IMResult(a, b, "raise", <<>>)
    ELSE LET x2 == [k \in 1..Len(a.hug.uparr) |-> vel - a.im1.up - a.hug.uparr[k]]
             res == Intersection(b.hug.uparr, b.hug.parr, x2, a.hug.parr)
         IN  IF res = <<>> THEN IMResult(a, b, "raise", <<>>)
             ELSE IMResult(
                    [a EXCEPT !.im1 = PointOn(res[1], a.hug.uparr, a.hug.varr, a.hug.earr)],
                    [b EXCEPT !.im1 = PointOn(res[1], b.hug.uparr, b.hug.varr, b.hug.earr)],
                    "True", <<>>)

\* lines 875-889: the first pair of materials
IM_match_first(a, b, vel) ==
    IF ~a.hug.set \/ ~b.hug.set THEN IMResult(a, b, "raise", <<>>)
    ELSE LET x2 == [k \in 1..Len(a.hug.uparr) |-> vel - a.hug.uparr[k]]
             bx == b.hug.uparr
             by == b.hug.parr
             ay == a.hug.parr
             res == Intersection(bx, by, x2, ay)
         IN  IF res = <<>> THEN IMResult(a, b, "raise", <<>>)   \* res[0][0]
             ELSE IMResult(
                    [a EXCEPT !.im1 = PointOn(res[1], a.hug.uparr, a.hug.varr, a.hug.earr)],
                    [b EXCEPT !.im1 = PointOn(res[1], b.hug.uparr, b.hug.varr, b.hug.earr)],
                    "True", <<>>)

\* IM_match_failed without lines 925-932 and 963-970
IM_match_failed_keeps(a, b, called) == IMResult(a, b, "False", called)

\* IM_match_failed zeroing the receiver's first state as well
IM_match_failed_im1(a, b, called) ==
    IMResult([a EXCEPT !.im1 = EOS_Point, !.im2 = EOS_Point],
             [b EXCEPT !.im1 = EOS_Point], "False", called)

\* lines 925-934 and 963-972
IM_match_failed(a, b, called) ==
    IMResult([a EXCEPT !.im2 = EOS_Point], [b EXCEPT !.im1 = EOS_Point], "False", called)

\* lines 905-934: the reshock curve of a1 against b's Hugoniot gave res_reshock
ReshockMatch(a1, b, called, res_reshock) ==
    IF res_reshock # <<>>
    THEN IMResult(
           [a1 EXCEPT !.im2 = PointOn(res_reshock[1], Flip(a1.reshock.uparr),
                                      Flip(a1.reshock.varr), Flip(a1.reshock.earr))],
           [b EXCEPT !.im1 = PointOn(res_reshock[1], b.hug.uparr, b.hug.varr,
                                     b.hug.earr)],
           "True", called)
    ELSE IM_match_failed(a1, b, called)

\* lines 899-901: r is what MakeReshockHug gave back
AfterReshock(r, b) ==
    IF r.raised THEN IMResult(r.m, b, "raise", << <<"MakeReshockHug", Flag(r)>> >>)
    ELSE ReshockMatch(r.m, b, << <<"MakeReshockHug", Flag(r)>> >>,
                      Intersection(b.hug.uparr, b.hug.parr,
                                   Flip(r.m.reshock.uparr), Flip(r.m.reshock.parr)))

\* lines 896-934: reshock a into b
IM_match_reshock(a, b, usemgmodelbool) ==
    AfterReshock(MakeReshockHug(a, a.im1, usemgmodelbool), b)

\* 2*self.im1.up-self.isen.uparr
Reflected(a1) ==
    [k \in 1..Len(a1.isen.uparr) |-> NSub(NMul(2, a1.im1.up), a1.isen.uparr[k])]

\* lines 943-972: the reflected isentrope ix of a1 against b's Hugoniot gave
\* res_release; ind is np.where(self.isen.varr > 0)[0]
ReleaseResult(a1, b, called, ix, res_release, ind) ==
    IF res_release # <<>> /\ ind = <<>>
    THEN IMResult(                              \* np.interp of empty arrays
           [a1 EXCEPT !.im2.up = res_release[1][1], !.im2.p = res_release[1][2]],
           b, "raise", called)
    ELSE IF res_release # <<>>
    THEN IMResult(
           [a1 EXCEPT !.im2 =
               [up |-> res_release[1][1], p |-> res_release[1][2],
                v |-> Recip(Interp(res_release[1][1],
                                   [k \in 1..Len(ind) |-> ix[ind[k]]],
                                   [k \in 1..Len(ind) |-> Recip(a1.isen.varr[ind[k]])])),
                e |-> Interp(res_release[1][1], ix, a1.isen.earr)]],
           [b EXCEPT !.im1 = PointOn(res_release[1], b.hug.uparr, b.hug.varr,
                                     b.hug.earr)],
           "True", called)
    ELSE IM_match_failed(a1, b, called)

\* line 941
ReleaseMatch(a1, b, called, ix) ==
    ReleaseResult(a1, b, called, ix,
                  Intersection(b.hug.uparr, b.hug.parr, ix, a1.isen.parr),
                  Where([k \in 1..Len(ix) |-> NGt(a1.isen.varr[k], 0)]))

\* lines 938-941: r is what MakeMGIsentrope gave back; an isentrope never
\* built is still the scalar 0., which Intersection cannot take
AfterIsentrope(r, b) ==
    IF r.raised \/ ~r.m.isen.set
    THEN IMResult(r.m, b, "raise", << <<"MakeMGIsentrope", Flag(r)>> >>)
    ELSE ReleaseMatch(r.m, b, << <<"MakeMGIsentrope", Flag(r)>> >>, Reflected(r.m))

\* lines 936-972: release a into b
IM_match_release(a, b, vel, usemgmodelbool) ==
    AfterIsentrope(MakeMGIsentrope(a, a.im1, usemgmodelbool, vel), b)

\* B's Hugoniot pressure at up = A.im1.up (line 894)
MatbHugPatUp(a, b) == Interp(a.im1.up, b.hug.uparr, b.hug.parr)

\* IM_match with >= for the > of line 896
IM_match_ge(a, b, vel, pstartGiven, usemgmodelbool) ==
    IF ~pstartGiven /\ vel > 0 THEN IM_match_first(a, b, vel)
    ELSE IF pstartGiven
    THEN IF ~b.hug.set THEN IMResult(a, b, "raise", <<>>)
         ELSE IF NGe(MatbHugPatUp(a, b), a.im1.p)
              THEN IM_match_reshock(a, b, usemgmodelbool)
              ELSE IM_match_release(a, b, vel, usemgmodelbool)
    ELSE IMResult(a, b, "None", <<>>)

\* IM_match(matb, vel, pstart, usemgmodelbool); pstartGiven: pstart != 0
IM_match(a, b, vel, pstartGiven, usemgmodelbool) ==
    IF ~pstartGiven /\ vel > 0 THEN IM_match_first(a, b, vel)
    ELSE IF pstartGiven
    THEN IF ~b.hug.set THEN IMResult(a, b, "raise", <<>>)      \* np.interp of a float
         ELSE IF NGt(MatbHugPatUp(a, b), a.im1.p)
              THEN IM_match_reshock(a, b, usemgmodelbool)
              ELSE IM_match_release(a, b, vel, usemgmodelbool)
    ELSE IMResult(a, b, "None", <<>>)

(***************************************************************************)
(* Chain Orchestrator: one invocation of match_and_plot, step by step.     *)
(***************************************************************************)
VARIABLES
    pc,             \* position inside match_and_plot
    wvel,           \* wvel.value, km/s
    wmat,           \* wmat1..wmat4: a row of matdata, or 0 for 'Choose material'
    wusemgmodel,    \* wusemgmodel.value
    mat,            \* mat1..mat4
    IM_success,     \* IM12_success, IM23_success, IM34_success ("unset" before)
    string_IM_res,  \* the result lines collected so far
    winfo,          \* winfo.value, the status shown to the user
    fig,            \* TRUE once the figure has been returned
    raised,         \* TRUE once an exception has left match_and_plot
    attempted,      \* the IM_match calls made, as <<a, b>> material numbers
    integrators,    \* the Path Integrator calls made, as <<a, name, flag>>
    built,          \* the materials MakeHugoniot was called for
    lib             \* the last call made directly on the module: its
                    \* arguments, what it returned, the integrators it called

vars == <<pc, wvel, wmat, wusemgmodel, mat, IM_success, string_IM_res, winfo,
          fig, raised, attempted, integrators, built, lib>>

\* the impact velocities the widget is given, km/s
Velocities == {-1, 0, 2}

\* wmat1..wmat4: a row of the database, or 0 while 'Choose material' is shown
Selections == [1..4 -> 0..4]

\* winfo.value: the kind of message and what it carries
Status(kind, k, upmax, mg, res) ==
    [kind |-> kind, k |-> k, upmax |-> upmax, mg |-> mg, res |-> res]

\* no direct call made
NoCall == [kind |-> "none", vel |-> 0, usemgmodelbool |-> FALSE, ret |-> "unset",
           called |-> <<>>]

Init ==
    /\ pc = "idle"
    /\ wvel = 0
    /\ wmat = [k \in 1..4 |-> 0]
    /\ wusemgmodel = FALSE
    /\ mat = [k \in 1..4 |-> Material]
    /\ IM_success = [k \in 1..3 |-> "unset"]
    /\ string_IM_res = <<>>
    /\ winfo = Status("initial", 0, 0, FALSE, <<>>)
    /\ fig = FALSE
    /\ raised = FALSE
    /\ attempted = <<>>
    /\ integrators = <<>>
    /\ built = {}
    /\ lib = NoCall

\* vel = vel*1.e3, in the model's velocity unit
vel == wvel * 100

\* Invoke with < for the <= of line 124
Invoke_lt ==
    /\ pc = "idle"
    /\ \E v \in Velocities, sel \in Selections, mg \in BOOLEAN :
          /\ wvel' = v
          /\ wmat' = sel
          /\ wusemgmodel' = mg
          /\ IF v * 100 < 0
             THEN /\ winfo' = Status("vel<=0", 0, 0, FALSE, <<>>)
                  /\ pc' = "done"
             ELSE /\ winfo' = winfo
                  /\ pc' = "mat1"
    /\ UNCHANGED <<mat, IM_success, string_IM_res, fig, raised, attempted,
                   integrators, built, lib>>

\* the widgets are set and match_and_plot starts (lines 117-128)
Invoke ==
    /\ pc = "idle"
    /\ \E v \in Velocities, sel \in Selections, mg \in BOOLEAN :
          /\ wvel' = v
          /\ wmat' = sel
          /\ wusemgmodel' = mg
          /\ IF v * 100 <= 0
             THEN /\ winfo' = Status("vel<=0", 0, 0, FALSE, <<>>)
                  /\ pc' = "done"
             ELSE /\ winfo' = winfo
                  /\ pc' = "mat1"
    /\ UNCHANGED <<mat, IM_success, string_IM_res, fig, raised, attempted,
                   integrators, built, lib>>

\* the particle-velocity array of material id (lines 148-150, 158-164)
UpArrayFor(id) ==
    IF wusemgmodel /\ matdata[id].rho0 < 5000
    THEN UpGrid(UparrLengthMG, vel, 5)
    ELSE UpGrid(UparrLength, vel, 2)

\* HasNegative looking at the first point only
HasNegative_first(arr) == NLt(arr[1], 0)

\* len(np.where(parr < 0)[0]) > 0 (lines 166-167 and the like)
HasNegative(arr) == \E k \in 1..Len(arr) : NLt(arr[k], 0)

\* InitMaterial without the 'Missing material 3' test of lines 213-216
InitMaterial_nomissing3(k) ==
    /\ pc = <<"mat1", "mat2", "mat3", "mat4">>[k]
    /\ LET next == <<"mat2", "mat3", "mat4", "check">>[k]
       IN  IF wmat[k] = 0
           THEN /\ pc' = next
                /\ UNCHANGED <<mat, winfo, built>>
           ELSE LET upmat == UpArrayFor(wmat[k])
                    m0 == DefineParamsID(Material, wmat[k])
                    m == MakeHugoniot(m0, upmat)
                IN  /\ mat' = [mat EXCEPT ![k] = m]
                    /\ built' = built \cup {k}
                    /\ IF HasNegative(m.hug.parr)
                       THEN /\ winfo' = Status("neghug", k, SeqMax(upmat), FALSE, <<>>)
                            /\ pc' = "done"
                       ELSE /\ winfo' = winfo
                            /\ pc' = next
    /\ UNCHANGED <<wvel, wmat, wusemgmodel, IM_success, string_IM_res, fig, raised,
                   attempted, integrators, lib>>

\* INITIALIZE MATERIALS FROM DROPDOWN MENUS: material k (lines 154-232)
InitMaterial(k) ==
    /\ pc = <<"mat1", "mat2", "mat3", "mat4">>[k]
    /\ LET next == <<"mat2", "mat3", "mat4", "check">>[k]
       IN  IF wmat[k] = 0
           THEN /\ pc' = next
                /\ UNCHANGED <<mat, winfo, built>>
           ELSE IF k = 4 /\ wmat[3] = 0
           THEN /\ winfo' = Status("missing3", 0, 0, FALSE, <<>>)
                /\ pc' = "done"
                /\ UNCHANGED <<mat, built>>
           ELSE LET upmat == UpArrayFor(wmat[k])
                    m0 == DefineParamsID(Material, wmat[k])
                    m == MakeHugoniot(m0, upmat)
                IN  /\ mat' = [mat EXCEPT ![k] = m]
                    /\ built' = built \cup {k}
                    /\ IF HasNegative(m.hug.parr)
                       THEN /\ winfo' = Status("neghug", k, SeqMax(upmat), FALSE, <<>>)
                            /\ pc' = "done"
                       ELSE /\ winfo' = winfo
                            /\ pc' = next
    /\ UNCHANGED <<wvel, wmat, wusemgmodel, IM_success, string_IM_res, fig, raised,
                   attempted, integrators, lib>>

\* CheckMaterials without the test of id2
CheckMaterials_id1 ==
    /\ pc = "check"
    /\ IF wmat[1] = 0
       THEN /\ winfo' = Status("need12", 0, 0, FALSE, <<>>)
            /\ pc' = "done"
       ELSE /\ winfo' = winfo
            /\ pc' = "im12"
    /\ UNCHANGED <<wvel, wmat, wusemgmodel, mat, IM_success, string_IM_res, fig,
                   raised, attempted, integrators, built, lib>>

\* check that at least 2 materials have been defined (lines 236-238)
CheckMaterials ==
    /\ pc = "check"
    /\ IF wmat[1] = 0 \/ wmat[2] = 0
       THEN /\ winfo' = Status("need12", 0, 0, FALSE, <<>>)
            /\ pc' = "done"
       ELSE /\ winfo' = winfo
            /\ pc' = "im12"
    /\ UNCHANGED <<wvel, wmat, wusemgmodel, mat, IM_success, string_IM_res, fig,
                   raised, attempted, integrators, built, lib>>

\* the lines appended to string_IM_res for one interface
ResultLines(a, b, sa, sb) == <<[a |-> a, b |-> b, sa |-> sa, sb |-> sb]>>

\* what is left of an interface's block after IM_match returned r or raised;
\* tested: the interface whose success flag the block goes on to test
AfterMatch(i, r, tested, next) ==
    /\ mat' = [mat EXCEPT ![i] = r.a, ![i + 1] = r.b]
    /\ attempted' = Append(attempted, <<i, i + 1>>)
    /\ integrators' = integrators \o
                       [n \in 1..Len(r.called) |-> <<i, r.called[n][1], r.called[n][2]>>]
    /\ IM_success' = [IM_success EXCEPT ![i] = r.ret]
    /\ IF IM_success'[i] = "raise"
       THEN /\ raised' = TRUE
            /\ pc' = "done"
            /\ UNCHANGED <<winfo, string_IM_res>>
       ELSE IF IM_success'[tested] # "True"
       THEN /\ winfo' = Status("failed", i, 0, i > 1 /\ wusemgmodel, <<>>)
            /\ pc' = "done"
            /\ UNCHANGED <<raised, string_IM_res>>
       ELSE /\ string_IM_res' = string_IM_res \o
                   ResultLines(i, i + 1,
                               IF i = 1 THEN mat'[i].im1 ELSE mat'[i].im2,
                               mat'[i + 1].im1)
            /\ pc' = next
            /\ UNCHANGED <<raised, winfo>>
    /\ UNCHANGED <<wvel, wmat, wusemgmodel, fig, built, lib>>

\* SOLVE FOR FIRST IM STATE: mat1 --> mat2 at vel (lines 243-252)
Match12 ==
    /\ pc = "im12"
    /\ AfterMatch(1, IM_match(mat[1], mat[2], vel, FALSE, FALSE), 1,
                  IF wmat[3] # 0 THEN "im23" ELSE IF wmat[4] # 0 THEN "im34" ELSE "plot")

\* second impedance match state mat2 -> mat3 (lines 254-265); the test of
\* line 257 reads IM12_success
Match23 ==
    /\ pc = "im23"
    /\ AfterMatch(2, IM_match(mat[2], mat[3], vel, TRUE, wusemgmodel), 1,
                  IF wmat[4] # 0 THEN "im34" ELSE "plot")

\* third impedance match state mat3 -> mat4 (lines 267-278)
Match34 ==
    /\ pc = "im34"
    /\ AfterMatch(3, IM_match(mat[3], mat[4], vel, TRUE, wusemgmodel), 3, "plot")

\* string3B, string4B (lines 316-323, 342-349): the label of material m, which
\* also chooses the curve of m that is plotted
stringB(m) == IF NGt(m.im2.p, m.im1.p) THEN " RESHOCK" ELSE " RELEASE"

\* MAKE PLOT and report (lines 283-377)
MakePlot ==
    /\ pc = "plot"
    /\ winfo' = Status("success", 0, 0, wusemgmodel, string_IM_res)
    /\ fig' = TRUE
    /\ pc' = "done"
    /\ UNCHANGED <<wvel, wmat, wusemgmodel, mat, IM_success, string_IM_res, raised,
                   attempted, integrators, built, lib>>

Next ==
    \/ Invoke
    \/ \E k \in 1..4 : InitMaterial(k)
    \/ CheckMaterials
    \/ Match12
    \/ Match23
    \/ Match34
    \/ MakePlot

Spec == Init /\ [][Next]_vars

(***************************************************************************)
(* IM_module used directly: three materials are defined and given a        *)
(* Hugoniot, then IM_match is called on them, any number of times and in   *)
(* any order.                                                              *)
(***************************************************************************)
\* number of intervals of a grid too short for the Path Integrator
\* (MakeMGIsentrope wants more than 10 points)
ShortLength == 8

\* the impact velocity handed to IM_match, 10 m/s; 0 is the default of vel
LibVelocities == {0, 200}

\* the particle-velocity arrays handed to MakeHugoniot: the span the
\* orchestrator uses, the same span with few points, and a span that stops
\* below the particle velocities of the match
FullGrid == UpGrid(UparrLength, 200, 2)
FewPoints == UpGrid(ShortLength, 200, 2)
ShortSpan == UpGrid(UparrLength, 50, 1)
\* the span used with the M-G model: half the impact velocity falls between
\* two points of it
WideSpan == UpGrid(UparrLength, 200, 5)

\* the arrays of materials 1, 2, 3
LibGrids ==
    { <<FullGrid, FullGrid, FullGrid>>, <<FewPoints, FewPoints, FewPoints>>,
      <<ShortSpan, ShortSpan, ShortSpan>>, <<FullGrid, FullGrid, ShortSpan>>,
      <<WideSpan, WideSpan, WideSpan>> }

\* Material(), DefineParamsID and MakeHugoniot for the rows ids of the
\* database (0: MakeHugoniot not called)
LibMaterials(ids, uparr) ==
    [k \in 1..4 |->
        IF k > Len(ids) \/ ids[k] = 0 THEN Material
        ELSE MakeHugoniot(DefineParamsID(Material, ids[k]), uparr[k])]

LibInit ==
    /\ pc = "lib"
    /\ \E ids \in [1..3 -> 0..3], uparr \in LibGrids : mat = LibMaterials(ids, uparr)
    /\ wvel = 0
    /\ wmat = [k \in 1..4 |-> 0]
    /\ wusemgmodel = FALSE
    /\ IM_success = [k \in 1..3 |-> "unset"]
    /\ string_IM_res = <<>>
    /\ winfo = Status("initial", 0, 0, FALSE, <<>>)
    /\ fig = FALSE
    /\ raised = FALSE
    /\ attempted = <<>>
    /\ integrators = <<>>
    /\ built = {}
    /\ lib = NoCall

\* what a direct call leaves behind
LibCall(kind, i, v, mg, r) ==
    /\ mat' = [mat EXCEPT ![i] = r.a, ![i + 1] = r.b]
    /\ lib' = [kind |-> kind, vel |-> v, usemgmodelbool |-> mg, ret |-> r.ret,
               called |-> r.called]
    /\ UNCHANGED <<pc, wvel, wmat, wusemgmodel, IM_success, string_IM_res, winfo,
                   fig, raised, attempted, integrators, built>>

\* mat1.IM_match(mat2, vel=v, usemgmodelbool=mg)
LibFirstMatch ==
    /\ pc = "lib"
    /\ \E v \in LibVelocities, mg \in BOOLEAN :
          LibCall("first", 1, v, mg, IM_match(mat[1], mat[2], v, FALSE, mg))

\* mat2.IM_match(mat3, pstart=mat2.im1, usemgmodelbool=mg, vel=v)
LibNextMatch ==
    /\ pc = "lib"
    /\ \E v \in LibVelocities, mg \in BOOLEAN :
          LibCall("next", 2, v, mg, IM_match(mat[2], mat[3], v, TRUE, mg))

LibNext == LibFirstMatch \/ LibNextMatch

LibSpec == LibInit /\ [][LibNext]_vars

(***************************************************************************)
(* Intersection called directly on two polylines.                          *)
(***************************************************************************)
\* the largest coordinate of a polyline's point, in steps of 10
MaxCoord == 2

Coords == {10 * k : k \in 0..MaxCoord}

\* the polylines handed to Intersection, as <<x array, y array>>: every single
\* segment between two points of the grid (the two points may coincide), and
\* every polyline of three points with x = 0, 10, 20
Segments == {<< <<xa, xb>>, <<ya, yb>> >> : xa \in Coords, xb \in Coords,
                                          ya \in Coords, yb \in Coords}
ThreePoints == {<< <<0, 10, 20>>, <<ya, yb, yc>> >> : ya \in Coords, yb \in Coords,
                                                     yc \in Coords}
Polylines == Segments \cup ThreePoints

SolverInit ==
    /\ pc = "solver"
    /\ mat = [k \in 1..4 |-> Material]
    /\ wvel = 0
    /\ wmat = [k \in 1..4 |-> 0]
    /\ wusemgmodel = FALSE
    /\ IM_success = [k \in 1..3 |-> "unset"]
    /\ string_IM_res = <<>>
    /\ winfo = Status("initial", 0, 0, FALSE, <<>>)
    /\ fig = FALSE
    /\ raised = FALSE
    /\ attempted = <<>>
    /\ integrators = <<>>
    /\ built = {}
    /\ lib = NoCall

\* x, y = Intersection(x1, y1, x2, y2); ret holds the points <<x, y>>
CallIntersection ==
    /\ pc = "solver"
    /\ \E c1 \in Polylines, c2 \in Polylines :
          lib' = [kind |-> "Intersection", x1 |-> c1[1], y1 |-> c1[2],
                  x2 |-> c2[1], y2 |-> c2[2],
                  ret |-> Intersection(c1[1], c1[2], c2[1], c2[2])]
    /\ pc' = "returned"
    /\ UNCHANGED <<wvel, wmat, wusemgmodel, mat, IM_success, string_IM_res,
                   winfo, fig, raised, attempted, integrators, built>>

SolverNext == CallIntersection

SolverSpec == SolverInit /\ [][SolverNext]_vars

(***************************************************************************)
(* The curve builders of one Material called directly: MakeHugoniot at     *)
(* most once, then MakeReshockHug or MakeMGIsentrope once, with or without *)
(* a Hugoniot.                                                             *)
(***************************************************************************)
\* an ascending grid of uneven steps: 0, 3, 12, 27, ...
UnevenGrid == [k \in 1..(UparrLength + 1) |-> 3 * (k - 1) * (k - 1)]

\* the particle-velocity arrays handed to MakeHugoniot
CurveGrids == {FullGrid, FewPoints, WideSpan, UnevenGrid}

\* the impact velocities handed to MakeMGIsentrope, 10 m/s; 0. is the default
CurveVelocities == {0, 200}

\* the sample k of the material's principal Hugoniot as an EOS_Point
HugPoint(m, k) ==
    [p |-> m.hug.parr[k], v |-> m.hug.varr[k], e |-> m.hug.earr[k],
     up |-> m.hug.uparr[k]]

\* the departure states handed to the integrators: the samples of the
\* material's own Hugoniot, a state above its last sample, and the state of an
\* EOS_Point never written; without a Hugoniot, the latter and a solved state
\* of another material
Departures(m) ==
    IF m.hug.set
    THEN {HugPoint(m, k) : k \in 1..Len(m.hug.parr)}
         \cup {[HugPoint(m, Len(m.hug.parr)) EXCEPT !.p = @ + 1], EOS_Point}
    ELSE {EOS_Point, [p |-> 351, v |-> 3135, e |-> 99684, up |-> 100]}

\* the rows of the database the material is defined from
CurveMaterials == {1, 3, 5, 6, 7}

CurveInit ==
    /\ pc = "curve"
    /\ \E id \in CurveMaterials :
          mat = [k \in 1..4 |-> IF k = 1 THEN DefineParamsID(Material, id) ELSE Material]
    /\ wvel = 0
    /\ wmat = [k \in 1..4 |-> 0]
    /\ wusemgmodel = FALSE
    /\ IM_success = [k \in 1..3 |-> "unset"]
    /\ string_IM_res = <<>>
    /\ winfo = Status("initial", 0, 0, FALSE, <<>>)
    /\ fig = FALSE
    /\ raised = FALSE
    /\ attempted = <<>>
    /\ integrators = <<>>
    /\ built = {}
    /\ lib = NoCall

\* what a call of a curve builder leaves behind: the material m, and in lib
\* the material as it was before, the arguments and what the call gave back
CurveCall(kind, arg, mg, v, m, ret, next) ==
    /\ mat' = [mat EXCEPT ![1] = m]
    /\ lib' = [kind |-> kind, before |-> mat[1], arg |-> arg, usemgmodelbool |-> mg,
               vel |-> v, ret |-> ret]
    /\ pc' = next
    /\ UNCHANGED <<wvel, wmat, wusemgmodel, IM_success, string_IM_res, winfo, fig,
                   raised, attempted, integrators, built>>

\* what an integrator call leaves behind
IntegratorCall(kind, pstart, mg, v, r) ==
    CurveCall(kind, pstart, mg, v, r.m, Flag(r), "returned")

\* mat.MakeHugoniot(uparr)
CallMakeHugoniot ==
    /\ pc = "curve"
    /\ ~mat[1].hug.set
    /\ \E uparr \in CurveGrids :
          CurveCall("MakeHugoniot", uparr, FALSE, 0, MakeHugoniot(mat[1], uparr),
                    "None", "curve")

\* mat.MakeReshockHug(pstart, usemgmodelbool=mg)
CallMakeReshockHug ==
    /\ pc = "curve"
    /\ \E pstart \in Departures(mat[1]), mg \in BOOLEAN :
          IntegratorCall("MakeReshockHug", pstart, mg, 0,
                         MakeReshockHug(mat[1], pstart, mg))

\* mat.MakeMGIsentrope(pstart, usemgmodelbool=mg, impvel=v)
CallMakeMGIsentrope ==
    /\ pc = "curve"
    /\ \E pstart \in Departures(mat[1]), mg \in BOOLEAN, v \in CurveVelocities :
          IntegratorCall("MakeMGIsentrope", pstart, mg, v,
                         MakeMGIsentrope(mat[1], pstart, mg, v))

CurveNext == CallMakeHugoniot \/ CallMakeReshockHug \/ CallMakeMGIsentrope

CurveSpec == CurveInit /\ [][CurveNext]_vars

(***************************************************************************)
(* Properties of the Chain Orchestrator (specification Spec).              *)
(***************************************************************************)
\* the Path Integrator calls made for the interface i -> i+1
IntegratorsAt(i) == SelectSeq(integrators, LAMBDA c : c[1] = i)

\* the result lines of the interface j -> j+1 as the materials hold them
SolvedStates(j) ==
    [a |-> j, b |-> j + 1, sa |-> IF j = 1 THEN mat[1].im1 ELSE mat[j].im2,
     sb |-> mat[j + 1].im1]

\* C1: whenever the match material 2 -> material 3 returned failure, the run
\* ends with the failure status naming materials 2 and 3, and the success
\* report (plot and results text) is never produced for that run.
C1_Failed23IsReported ==
    IM_success[2] = "False" =>
        /\ ~fig
        /\ pc = "done" => winfo.kind = "failed" /\ winfo.k = 2

\* C2: once an interface match has returned failure, no later interface
\* match is attempted in that run: every attempted match but the last one
\* succeeded.
C2_NoMatchAfterFailure ==
    \A j \in 1..Len(attempted) :
        j < Len(attempted) => IM_success[attempted[j][1]] = "True"

\* C4: when the interface 2 -> 3 or 3 -> 4 failed, the status the run ends
\* with contains the solved states of every earlier interface that succeeded.
C4_FailureKeepsEarlierStates ==
    \A i \in 2..3 :
        pc = "done" /\ IM_success[i] = "False" =>
            \A j \in 1..(i - 1) :
                IM_success[j] = "True" =>
                    \E n \in 1..Len(winfo.res) : winfo.res[n] = SolvedStates(j)

\* C7: an invocation with impact velocity <= 0 ends at once with the
\* configuration error: no Hugoniot is built, no Path Integrator is called and
\* no interface match is attempted, whatever materials are selected.
C7_NonPositiveVelocityRejected ==
    pc # "idle" /\ wvel <= 0 =>
        /\ pc = "done"
        /\ winfo = Status("vel<=0", 0, 0, FALSE, <<>>)
        /\ built = {}
        /\ \A k \in 1..4 : ~mat[k].hug.set
        /\ integrators = <<>>
        /\ attempted = <<>>

\* a run with all four materials selected that the velocity test ended
C7_Witness ==
    /\ pc = "done" /\ wvel <= 0 /\ winfo.kind = "vel<=0"
    /\ \A k \in 1..4 : wmat[k] # 0

\* C8 as stated: an invocation (velocity > 0) in which material 1 or 2 is not
\* selected ends with the status 'need materials 1 and 2', no Hugoniot built
\* and no other error status in its place.
C8_RejectedBeforeAnyComputation ==
    pc = "done" /\ wvel > 0 /\ (wmat[1] = 0 \/ wmat[2] = 0) =>
        winfo.kind = "need12" /\ built = {}

\* C8, amended: an invocation (velocity > 0) in which material 1 or 2 is not
\* selected attempts no interface match, calls no Path Integrator and gives no
\* success report; it ends with 'need materials 1 and 2' unless an earlier
\* test ended it (a negative Hugoniot pressure, material 4 without material
\* 3), and when it ends with 'need materials 1 and 2' the Hugoniot of every
\* selected material has been built.
C8_RejectedBeforeAnyMatch ==
    pc # "idle" /\ wvel > 0 /\ (wmat[1] = 0 \/ wmat[2] = 0) =>
        /\ attempted = <<>> /\ integrators = <<>> /\ ~fig
        /\ pc \notin {"im12", "im23", "im34", "plot"}
        /\ pc = "done" =>
              /\ winfo.kind \in {"need12", "neghug", "missing3"}
              /\ winfo.kind = "need12" => built = {k \in 1..4 : wmat[k] # 0}

\* material 2 missing: rejected with 'need materials 1 and 2' after the
\* Hugoniots of materials 1 and 3 were built
C8_Witness ==
    /\ pc = "done" /\ winfo.kind = "need12"
    /\ wmat[2] = 0 /\ built = {1, 3}

\* C9: if the Hugoniot built for a selected material has a negative pressure
\* at some point of its grid, the run is over with the status that names that
\* material and the maximum of its grid, and no interface match is attempted.
C9_NegativeHugoniotAborts ==
    \A k \in built :
        (\E n \in 1..Len(mat[k].hug.parr) : mat[k].hug.parr[n] < 0) =>
            /\ pc = "done"
            /\ winfo = Status("neghug", k, SeqMax(mat[k].hug.uparr), FALSE, <<>>)
            /\ attempted = <<>>
            /\ ~fig

\* the third material's Hugoniot is the one with a negative pressure
C9_Witness ==
    /\ pc = "done" /\ winfo.kind = "neghug" /\ winfo.k = 3
    /\ 3 \in built
    /\ \E n \in 1..Len(mat[3].hug.parr) : mat[3].hug.parr[n] < 0

\* C10: at every subsequent interface A -> B exactly one Path Integrator is
\* called: MakeReshockHug when B's Hugoniot pressure interpolated at
\* up = A.im1.up is strictly greater than A.im1.p, MakeMGIsentrope otherwise;
\* only that curve of A is built, and a match that succeeds leaves in A.im2 the
\* first point where B's Hugoniot meets it (the reshock curve, or the isentrope
\* reflected as 2*A.im1.up - isen.up).
C10_BranchByPressureAtUp ==
    \A i \in 2..3 :
        IM_success[i] # "unset" =>
            LET calls == IntegratorsAt(i)
                A == mat[i]
                B == mat[i + 1]
                reshock == A.im1.p # NaN
                           /\ Interp(A.im1.up, B.hug.uparr, B.hug.parr) > A.im1.p
                res == IF reshock
                       THEN Intersection(B.hug.uparr, B.hug.parr,
                                         Flip(A.reshock.uparr), Flip(A.reshock.parr))
                       ELSE Intersection(B.hug.uparr, B.hug.parr,
                                         Reflected(A), A.isen.parr)
            IN  /\ Len(calls) = 1
                /\ calls[1][2] = IF reshock THEN "MakeReshockHug" ELSE "MakeMGIsentrope"
                /\ A.reshock.set = reshock
                /\ A.isen.set = ~reshock
                /\ IM_success[i] = "True" =>
                      A.im2.up = res[1][1] /\ A.im2.p = res[1][2]

\* a run of four materials, all matched, that reshocked material 2 and
\* released material 3
C10_Witness ==
    /\ pc = "done" /\ fig
    /\ IM_success = <<"True", "True", "True">>
    /\ integrators = << <<2, "MakeReshockHug", "True">>, <<3, "MakeMGIsentrope", "True">> >>

\* C11: an interface i -> i+1 of the chain (i = 2, 3) departs from the state
\* its predecessor wrote for material i, and that predecessor match succeeded:
\* whenever the match i -> i+1 has been attempted, the match i-1 -> i returned
\* True and its result lines hold material i's state im1.
C11_DepartsFromSolvedState ==
    \A i \in 2..3 :
        IM_success[i] # "unset" =>
            /\ IM_success[i - 1] = "True"
            /\ \E n \in 1..Len(string_IM_res) :
                  /\ string_IM_res[n].b = i
                  /\ string_IM_res[n].sb = mat[i].im1

\* C12: matches are attempted in the order 1 -> 2, 2 -> 3, 3 -> 4 only;
\* 2 -> 3 only with material 3 selected and after a successful 1 -> 2;
\* 3 -> 4 only with materials 3 and 4 selected and after 2 -> 3 was attempted.
C12_MatchesInChainOrder ==
    /\ \E n \in 0..3 : attempted = SubSeq(<< <<1, 2>>, <<2, 3>>, <<3, 4>> >>, 1, n)
    /\ Len(attempted) >= 2 => wmat[3] # 0 /\ IM_success[1] = "True"
    /\ Len(attempted) >= 3 => wmat[3] # 0 /\ wmat[4] # 0
    /\ wmat[3] = 0 => IM_success[3] = "unset"

\* a run of four materials in which the three matches were attempted, in
\* that order
C12_Witness ==
    /\ pc = "done"
    /\ \A k \in 1..4 : wmat[k] # 0
    /\ attempted = << <<1, 2>>, <<2, 3>>, <<3, 4>> >>

\* the interface i -> i+1 has its result lines in the report
Reported(i) == \E n \in 1..Len(string_IM_res) : string_IM_res[n].a = i

\* IM_match took the reshock branch at the interface i -> i+1
TookReshock(i) ==
    /\ IntegratorsAt(i) # <<>>
    /\ IntegratorsAt(i)[1][2] = "MakeReshockHug"

\* C28: for every interface i -> i+1 (i = 2, 3) whose result lines are in the
\* report of a finished run, the label chosen for material i is RESHOCK exactly
\* when IM_match took the reshock branch at that interface, RELEASE otherwise.
C28_LabelAgreesWithBranch ==
    pc = "done" /\ fig =>
        \A i \in 2..3 :
            Reported(i) => (stringB(mat[i]) = " RESHOCK" <=> TookReshock(i))

\* a finished run of four materials that labelled material 2 RESHOCK and
\* material 3 RELEASE
C28_Witness ==
    /\ pc = "done" /\ fig
    /\ Reported(2) /\ Reported(3)
    /\ TookReshock(2) /\ stringB(mat[2]) = " RESHOCK"
    /\ ~TookReshock(3) /\ stringB(mat[3]) = " RELEASE"

(***************************************************************************)
(* Properties of IM_match called directly (specification LibSpec).         *)
(***************************************************************************)
\* what Intersection gives for the first pair of materials (line 878)
FirstIntersection ==
    Intersection(mat[2].hug.uparr, mat[2].hug.parr,
                 [k \in 1..Len(mat[1].hug.uparr) |-> lib.vel - mat[1].hug.uparr[k]],
                 mat[1].hug.parr)

\* C3: when the Intersection Solver returns no point at the first interface
\* (pstart = 0, vel > 0), IM_match returns False without raising.
C3_EmptyFirstMatchReturnsFalse ==
    /\ lib.kind = "first" /\ lib.vel > 0
    /\ mat[1].hug.set /\ mat[2].hug.set
    /\ FirstIntersection = <<>>
    => lib.ret = "False"

\* C5: at a subsequent interface, if the Path Integrator call made by
\* IM_match returned False, IM_match returns False with A.im2 and B.im1 all
\* zero.
C5_FailedIntegratorFailsMatch ==
    /\ lib.kind = "next"
    /\ lib.called # <<>>
    /\ lib.called[1][2] = "False"
    => lib.ret = "False" /\ mat[2].im2 = EOS_Point /\ mat[3].im1 = EOS_Point

\* materials 1 and 2 have the same parameters and the same grid
IdenticalPair ==
    /\ mat[1].hug.set /\ mat[2].hug.set
    /\ mat[1].hug.uparr = mat[2].hug.uparr
    /\ \A f \in {"rho0", "c0", "s1", "s2", "d"} : mat[1][f] = mat[2][f]

\* rho0*up*Us(up) for material 1 at half the impact velocity, from the
\* parameters
SymmetricPressure ==
    (mat[1].rho0 * (((lib.vel \div 2) * UsOf(mat[1], lib.vel \div 2)) \div 100)) \div 5000

\* the state both materials are to hold after a symmetric impact
SymmetricState ==
    /\ lib.ret = "True"
    /\ mat[1].im1.up = lib.vel \div 2 /\ mat[1].im1.p = SymmetricPressure
    /\ mat[2].im1.up = lib.vel \div 2 /\ mat[2].im1.p = SymmetricPressure

\* C15 as stated: for two materials with identical parameters and identical
\* grids colliding at V > 0, the first-interface IM_match yields up = V/2 and
\* P = rho0*(V/2)*Us(V/2) for both, in either mode.
C15_SymmetricImpactOnAnyGrid ==
    lib.kind = "first" /\ lib.vel > 0 /\ IdenticalPair => SymmetricState

\* C15, amended: the same, for grids of which V/2 is a point.
C15_SymmetricImpactOnGridPoint ==
    /\ lib.kind = "first" /\ lib.vel > 0 /\ IdenticalPair
    /\ \E k \in 1..Len(mat[1].hug.uparr) : 2 * mat[1].hug.uparr[k] = lib.vel
    => SymmetricState

\* rho0 = 2700, c0 = 5350, s1 = 1.16 against itself at 2000 m/s, M-G mode:
\* up = 1000 m/s, P = 2700*1000*6510 Pa
C15_Witness ==
    /\ lib.kind = "first" /\ lib.vel = 200 /\ lib.usemgmodelbool
    /\ IdenticalPair /\ mat[1].rho0 = 2700 /\ mat[1].c0 = 535 /\ mat[1].s1 = 116
    /\ mat[1].im1.up = 100 /\ mat[1].im1.p = 351
    /\ mat[2].im1.up = 100 /\ mat[2].im1.p = 351

\* the step is a call of IM_match with the receiver, the target, the velocity,
\* the departure state and the mode of the call made just before it
SameCallAgain ==
    /\ lib.kind \in {"first", "next"}
    /\ lib'.kind = lib.kind
    /\ lib'.vel = lib.vel
    /\ lib'.usemgmodelbool = lib.usemgmodelbool

\* C18: a call of IM_match that repeats the call made just before it (same
\* two materials, velocity, pstart and mode) returns what the first returned
\* (or raises as the first did) and leaves im1 and im2 of both materials as
\* the first left them, also when the call or its Path Integrator call fails.
C18_RepeatedMatchIsIdempotent ==
    [][SameCallAgain =>
          LET i == IF lib.kind = "first" THEN 1 ELSE 2
          IN  /\ lib'.ret = lib.ret
              /\ lib'.called = lib.called
              /\ mat'[i].im1 = mat[i].im1 /\ mat'[i].im2 = mat[i].im2
              /\ mat'[i + 1].im1 = mat[i + 1].im1
              /\ mat'[i + 1].im2 = mat[i + 1].im2]_vars

\* a later-interface call with the M-G model whose Path Integrator returned
\* False has failed and zeroed the two states; the same call is enabled again
\* in this state
C18_Witness ==
    /\ lib.kind = "next" /\ lib.ret = "False" /\ lib.usemgmodelbool
    /\ lib.called # <<>> /\ lib.called[1][2] = "False"
    /\ mat[2].im1.p > 0
    /\ mat[2].im2 = EOS_Point /\ mat[3].im1 = EOS_Point
    /\ pc = "lib"

\* the principal Hugoniots and the interface states a call for the pair
\* (i, i+1) has no business with are as they were
OthersUntouched(i) ==
    /\ \A k \in 1..4 : mat'[k].hug = mat[k].hug
    /\ \A k \in (1..4) \ {i, i + 1} :
          mat'[k].im1 = mat[k].im1 /\ mat'[k].im2 = mat[k].im2

\* C21: a first-interface IM_match writes only impactor.im1 and target.im1; a
\* later-interface IM_match A -> B writes only A.im2 and B.im1 and leaves
\* A.im1, B.im2 and every principal Hugoniot as they were, whether it
\* succeeds or fails; so no state an earlier interface wrote is modified.
C21_MatchWritesOnlyItsStates ==
    [][/\ lib'.kind = "first" =>
             /\ OthersUntouched(1)
             /\ mat'[1].im2 = mat[1].im2 /\ mat'[2].im2 = mat[2].im2
       /\ lib'.kind = "next" =>
             /\ OthersUntouched(2)
             /\ mat'[2].im1 = mat[2].im1 /\ mat'[3].im2 = mat[3].im2]_vars

\* a later-interface call has failed and zeroed its two states while the
\* states of the first interface stand
C21_Witness ==
    /\ lib.kind = "next" /\ lib.ret = "False"
    /\ mat[1].im1.p > 0 /\ mat[2].im1 = [mat[1].im1 EXCEPT !.v = mat[2].im1.v,
                                                          !.e = mat[2].im1.e]
    /\ mat[2].im2 = EOS_Point /\ mat[3].im1 = EOS_Point

\* x lies between lo and hi, ends included
Within(x, lo, hi) == lo <= x /\ x <= hi

\* the state s lies on one segment of m's principal Hugoniot: its pressure,
\* specific volume and energy are each between those of two neighbouring
\* samples (pressure and energy rise along the curve, volume falls)
OnOwnHugoniot(m, s) ==
    \E k \in 1..(Len(m.hug.parr) - 1) :
        /\ Within(s.p, m.hug.parr[k], m.hug.parr[k + 1])
        /\ Within(s.v, m.hug.varr[k + 1], m.hug.varr[k])
        /\ Within(s.e, m.hug.earr[k], m.hug.earr[k + 1])

\* the first-interface call returned True
FirstMatched == lib.kind = "first" /\ lib.ret = "True"

\* C30: after a successful first-interface IM_match the state written for the
\* impactor and the state written for the target are each a single point of
\* that material's own principal Hugoniot: pressure, specific volume and
\* energy belong to the same place of the curve, for every pair of materials.
C30_ReportedStateOnOwnHugoniot ==
    FirstMatched =>
        /\ OnOwnHugoniot(mat[1], mat[1].im1)
        /\ OnOwnHugoniot(mat[2], mat[2].im1)

\* the last call was for a subsequent interface and reached Intersection
\* with a curve of A: the integrator returned and the curve is an array
ReachedIntersection ==
    /\ lib.kind = "next"
    /\ mat[3].hug.set
    /\ lib.called # <<>>
    /\ lib.called[1][2] # "raise"
    /\ lib.called[1][1] = "MakeMGIsentrope" => mat[2].isen.set

\* what Intersection gave on the branch taken (lines 901 and 941)
NextIntersection ==
    IF lib.called[1][1] = "MakeReshockHug"
    THEN Intersection(mat[3].hug.uparr, mat[3].hug.parr,
                      Flip(mat[2].reshock.uparr), Flip(mat[2].reshock.parr))
    ELSE Intersection(mat[3].hug.uparr, mat[3].hug.parr,
                      Reflected(mat[2]), mat[2].isen.parr)

\* C6: at a subsequent interface A -> B, if the Intersection Solver returns no
\* point on the branch taken, IM_match returns False and every field of A.im2
\* and of B.im1 is 0; otherwise it returns True and both states carry the
\* first returned point as (up, p).
C6_EmptyIntersectionZeroes ==
    ReachedIntersection =>
        IF NextIntersection = <<>>
        THEN /\ lib.ret = "False"
             /\ mat[2].im2 = EOS_Point
             /\ mat[3].im1 = EOS_Point
        ELSE /\ lib.ret = "True"
             /\ mat[2].im2.up = NextIntersection[1][1]
             /\ mat[2].im2.p = NextIntersection[1][2]
             /\ mat[3].im1.up = NextIntersection[1][1]
             /\ mat[3].im1.p = NextIntersection[1][2]

\* a release whose reflected isentrope does not meet B's Hugoniot
C6_Witness ==
    /\ ReachedIntersection
    /\ lib.called[1][1] = "MakeMGIsentrope"
    /\ NextIntersection = <<>>
    /\ lib.ret = "False"


(***************************************************************************)
(* Properties of Intersection called directly (specification SolverSpec).  *)
(***************************************************************************)
\* (b - a) x (c - a): on which side of the line a -> b the point c lies
Orient(ax, ay, bx, by, cx, cy) == (bx - ax) * (cy - ay) - (by - ay) * (cx - ax)

\* floor(n/d) for d # 0
FloorDiv(n, d) == IF d > 0 THEN n \div d ELSE (-n) \div (-d)

\* segment i of the first polyline and segment j of the second have the
\* same direction up to a factor, or one of them has no length
ParallelPair(i, j) ==
    (lib.x1[i + 1] - lib.x1[i]) * (lib.y2[j + 1] - lib.y2[j])
        = (lib.y1[i + 1] - lib.y1[i]) * (lib.x2[j + 1] - lib.x2[j])

\* the two polylines are single segments that cross: the ends of each lie
\* strictly on opposite sides of the other
SingleSegmentsCross ==
    /\ lib.kind = "Intersection"
    /\ Len(lib.x1) = 2 /\ Len(lib.x2) = 2
    /\ ~ParallelPair(1, 1)
    /\ Orient(lib.x1[1], lib.y1[1], lib.x1[2], lib.y1[2], lib.x2[1], lib.y2[1])
         * Orient(lib.x1[1], lib.y1[1], lib.x1[2], lib.y1[2], lib.x2[2], lib.y2[2]) < 0
    /\ Orient(lib.x2[1], lib.y2[1], lib.x2[2], lib.y2[2], lib.x1[1], lib.y1[1])
         * Orient(lib.x2[1], lib.y2[1], lib.x2[2], lib.y2[2], lib.x1[2], lib.y1[2]) < 0

\* the solution of the two lines' equations A x + B y = C by Cramer's rule,
\* in the unit of the coordinates
AnalyticSolution ==
    LET A1 == lib.y1[2] - lib.y1[1]
        B1 == lib.x1[1] - lib.x1[2]
        C1 == A1 * lib.x1[1] + B1 * lib.y1[1]
        A2 == lib.y2[2] - lib.y2[1]
        B2 == lib.x2[1] - lib.x2[2]
        C2 == A2 * lib.x2[1] + B2 * lib.y2[1]
        D == A1 * B2 - A2 * B1
    IN  <<FloorDiv(C1 * B2 - C2 * B1, D), FloorDiv(A1 * C2 - A2 * C1, D)>>

\* C13: given two polylines that are each a single segment, non-parallel and
\* crossing, Intersection returns exactly one point, the solution of the 2x2
\* linear system of the two lines.
C13_CrossingSegmentsGiveAnalyticPoint ==
    SingleSegmentsCross => lib.ret = <<AnalyticSolution>>

\* two diagonals that cross off the grid, at (20/3, 20/3)
C13_Witness ==
    /\ SingleSegmentsCross
    /\ lib.x1 = <<0, 20>> /\ lib.y1 = <<0, 20>>
    /\ lib.x2 = <<0, 10>> /\ lib.y2 = <<20, 0>>
    /\ lib.ret = << <<6, 6>> >>

\* C14: a pair of segments that is parallel or coincident (singular system)
\* contributes no point: Intersection returns at most one point per pair that
\* is not parallel, and nothing for polylines made of parallel pairs only.
C14_ParallelPairsGiveNoPoint ==
    lib.kind = "Intersection" =>
        Len(lib.ret) <= Cardinality({p \in (1..(Len(lib.x1) - 1)) \X (1..(Len(lib.x2) - 1)) :
                                        ~ParallelPair(p[1], p[2])})

\* two collinear segments that overlap between (10, 10) and (20, 20)
C14_Witness ==
    /\ lib.kind = "Intersection"
    /\ lib.x1 = <<0, 20>> /\ lib.y1 = <<0, 20>>
    /\ lib.x2 = <<10, 20>> /\ lib.y2 = <<10, 20>>
    /\ lib.ret = <<>>

\* the points found by solving every segment pair of the call's polylines,
\* none pruned, in the order of the pairs
SolveEveryPair ==
    LET n1 == Len(lib.x1) - 1
        n2 == Len(lib.x2) - 1
        T == [k \in 1..(n1 * n2) |->
                 SolvePair(lib.x1, lib.y1, lib.x2, lib.y2,
                           ((k - 1) \div n2) + 1, ((k - 1) % n2) + 1)]
        in_range == SelectSeq(T, LAMBDA t : t[1])
    IN  [k \in 1..Len(in_range) |-> <<in_range[k][2], in_range[k][3]>>]

\* C22: the points Intersection returns are exactly those obtained by solving
\* every segment pair without bounding-box pruning and keeping the solutions
\* with t1 and t2 in [0,1]; the pruning discards no pair that has one, also
\* for pairs touching at an endpoint and for vertical or horizontal segments.
C22_PruningLosesNoSolution ==
    lib.kind = "Intersection" => lib.ret = SolveEveryPair

\* a vertical and a horizontal segment that touch at an end of each: their
\* boxes share the single point (10, 10)
C22_Witness ==
    /\ lib.kind = "Intersection"
    /\ lib.x1 = <<10, 10>> /\ lib.y1 = <<0, 10>>
    /\ lib.x2 = <<10, 20>> /\ lib.y2 = <<10, 10>>
    /\ lib.ret = << <<10, 10>> >>

\* the segment pairs of the call's polylines
SegmentPairs == (1..(Len(lib.x1) - 1)) \X (1..(Len(lib.x2) - 1))

\* the segments of pair p are not parallel and have a point in common: the
\* ends of each lie on opposite sides of, or on, the other
MeetingPair(p) ==
    /\ ~ParallelPair(p[1], p[2])
    /\ Orient(lib.x1[p[1]], lib.y1[p[1]], lib.x1[p[1] + 1], lib.y1[p[1] + 1],
              lib.x2[p[2]], lib.y2[p[2]])
         * Orient(lib.x1[p[1]], lib.y1[p[1]], lib.x1[p[1] + 1], lib.y1[p[1] + 1],
                  lib.x2[p[2] + 1], lib.y2[p[2] + 1]) <= 0
    /\ Orient(lib.x2[p[2]], lib.y2[p[2]], lib.x2[p[2] + 1], lib.y2[p[2] + 1],
              lib.x1[p[1]], lib.y1[p[1]])
         * Orient(lib.x2[p[2]], lib.y2[p[2]], lib.x2[p[2] + 1], lib.y2[p[2] + 1],
                  lib.x1[p[1] + 1], lib.y1[p[1] + 1]) <= 0

MeetingPairs == {p \in SegmentPairs : MeetingPair(p)}

\* the common point of the lines through the segments of pair p, by Cramer's
\* rule, as <<numerator of x, numerator of y, denominator>>
LineCross(p) ==
    LET A1 == lib.y1[p[1] + 1] - lib.y1[p[1]]
        B1 == lib.x1[p[1]] - lib.x1[p[1] + 1]
        C1 == A1 * lib.x1[p[1]] + B1 * lib.y1[p[1]]
        A2 == lib.y2[p[2] + 1] - lib.y2[p[2]]
        B2 == lib.x2[p[2]] - lib.x2[p[2] + 1]
        C2 == A2 * lib.x2[p[2]] + B2 * lib.y2[p[2]]
    IN  <<C1 * B2 - C2 * B1, A1 * C2 - A2 * C1, A1 * B2 - A2 * B1>>

\* the pairs p and q meet in the same point
SamePoint(p, q) ==
    /\ LineCross(p)[1] * LineCross(q)[3] = LineCross(q)[1] * LineCross(p)[3]
    /\ LineCross(p)[2] * LineCross(q)[3] = LineCross(q)[2] * LineCross(p)[3]

\* one meeting pair for each distinct crossing point: the first in the order
\* of the pairs
FirstPairs ==
    {p \in MeetingPairs :
        \A q \in MeetingPairs :
            SamePoint(p, q) => (q[1] > p[1] \/ (q[1] = p[1] /\ q[2] >= p[2]))}

\* the point of pair p in the unit of the coordinates
CrossPoint(p) ==
    <<FloorDiv(LineCross(p)[1], LineCross(p)[3]),
      FloorDiv(LineCross(p)[2], LineCross(p)[3])>>

\* C29 as stated: Intersection returns each crossing point of the two
\* polylines exactly once, also a crossing on an interior vertex: the number
\* of returned points is the number of distinct crossing points.
C29_EachCrossingOnce ==
    lib.kind = "Intersection" => Len(lib.ret) = Cardinality(FirstPairs)

\* C29, amended: Intersection returns one point for every pair of non-parallel
\* segments that have a point in common, and nothing else: every crossing
\* point is returned, once for each segment pair that contains it.
C29_EachMeetingPairGivesItsPoint ==
    lib.kind = "Intersection" =>
        /\ Len(lib.ret) = Cardinality(MeetingPairs)
        /\ {lib.ret[k] : k \in 1..Len(lib.ret)} = {CrossPoint(p) : p \in MeetingPairs}

\* a straight polyline through (10, 10), its interior vertex, crossed there by
\* a diagonal: the point is returned for both segments
C29_Witness ==
    /\ lib.kind = "Intersection"
    /\ lib.x1 = <<0, 10, 20>> /\ lib.y1 = <<0, 10, 20>>
    /\ lib.x2 = <<0, 20>> /\ lib.y2 = <<20, 0>>
    /\ lib.ret = << <<10, 10>>, <<10, 10>> >>


(***************************************************************************)
(* Properties of the curve builders called directly (specification         *)
(* CurveSpec).                                                             *)
(***************************************************************************)
\* the material's parameters
Parameters == {"rho0", "c0", "s1", "s2", "d", "g0", "q"}

\* the grid of the material's Hugoniot starts at 0 and ascends
AscendingFromZero ==
    /\ mat[1].hug.uparr[1] = 0
    /\ \A k \in 1..(Len(mat[1].hug.uparr) - 1) :
          mat[1].hug.uparr[k] <= mat[1].hug.uparr[k + 1]

\* C16: for a material with rho0 > 0, c0 > 0, s1 > 0 and s2 = d = 0 and an
\* ascending grid starting at 0, the curve MakeHugoniot produced has pressure
\* non-decreasing and specific volume non-increasing from each grid point to
\* the next.
C16_HugoniotMonotone ==
    /\ mat[1].hug.set
    /\ mat[1].rho0 > 0 /\ mat[1].c0 > 0 /\ mat[1].s1 > 0
    /\ mat[1].s2 = 0 /\ mat[1].d = 0
    /\ AscendingFromZero
    => \A k \in 1..(Len(mat[1].hug.parr) - 1) :
          /\ NLe(mat[1].hug.parr[k], mat[1].hug.parr[k + 1])
          /\ NGe(mat[1].hug.varr[k], mat[1].hug.varr[k + 1])

\* the Hugoniot of the dense material just built on the uneven grid
C16_Witness ==
    /\ lib.kind = "MakeHugoniot" /\ mat[1].hug.set
    /\ mat[1].name = 5 /\ mat[1].s2 = 0 /\ mat[1].d = 0
    /\ mat[1].hug.uparr = UnevenGrid
    /\ mat[1].hug.parr[1] < mat[1].hug.parr[Len(UnevenGrid)]
    /\ mat[1].hug.varr[1] > mat[1].hug.varr[Len(UnevenGrid)]

\* the last call was MakeReshockHug in trivial mode, departing from a sample
\* of the material's own Hugoniot
OwnPointTrivialReshock ==
    /\ lib.kind = "MakeReshockHug" /\ ~lib.usemgmodelbool
    /\ lib.before.hug.set
    /\ \E k \in 1..Len(lib.before.hug.parr) : lib.arg = HugPoint(lib.before, k)

\* C17 as stated: MakeReshockHug in trivial mode, departing from a point of
\* the material's own Hugoniot, returns True and a curve that reproduces the
\* Hugoniot sample (same up, P, V, E) at every index with up >= departure up
\* and is undefined at every index with up below it.
C17_TrivialReshockReproducesHugoniot ==
    OwnPointTrivialReshock =>
        /\ lib.ret = "True"
        /\ \A k \in 1..Len(mat[1].hug.parr) :
              IF mat[1].hug.uparr[k] >= lib.arg.up
              THEN /\ mat[1].reshock.uparr[k] = mat[1].hug.uparr[k]
                   /\ mat[1].reshock.parr[k] = mat[1].hug.parr[k]
                   /\ mat[1].reshock.varr[k] = mat[1].hug.varr[k]
                   /\ mat[1].reshock.earr[k] = mat[1].hug.earr[k]
              ELSE /\ mat[1].reshock.uparr[k] = NaN
                   /\ mat[1].reshock.parr[k] = NaN
                   /\ mat[1].reshock.earr[k] = NaN

\* C17, amended: it returns True; at every index whose Hugoniot pressure is at
\* or above the departure pressure the curve has the Hugoniot's P, V and E,
\* the Hugoniot's up in uparr2 and its mirror image 2*up_depart - up in uparr;
\* at every index below, P, E and uparr are undefined and V is the Hugoniot's.
C17_TrivialReshockMirrorsHugoniot ==
    OwnPointTrivialReshock =>
        /\ lib.ret = "True"
        /\ \A k \in 1..Len(mat[1].hug.parr) :
              /\ mat[1].reshock.varr[k] = mat[1].hug.varr[k]
              /\ mat[1].reshock.uparr2[k] = mat[1].hug.uparr[k]
              /\ IF mat[1].hug.parr[k] >= lib.arg.p
                 THEN /\ mat[1].reshock.uparr[k] = 2 * lib.arg.up - mat[1].hug.uparr[k]
                      /\ mat[1].reshock.parr[k] = mat[1].hug.parr[k]
                      /\ mat[1].reshock.earr[k] = mat[1].hug.earr[k]
                 ELSE /\ mat[1].reshock.uparr[k] = NaN
                      /\ mat[1].reshock.parr[k] = NaN
                      /\ mat[1].reshock.earr[k] = NaN

\* a reshock departing from the fourth sample (up = 1000 m/s) of the
\* Hugoniot on the general grid: masked below, mirrored above
C17_Witness ==
    /\ OwnPointTrivialReshock
    /\ mat[1].hug.uparr = FullGrid
    /\ lib.arg = HugPoint(lib.before, 4)
    /\ mat[1].reshock.parr[3] = NaN
    /\ mat[1].reshock.parr[4] = lib.arg.p
    /\ mat[1].reshock.uparr[5] = 2 * lib.arg.up - FullGrid[5]

\* C19: MakeMGIsentrope and MakeReshockHug return a boolean and never raise,
\* whatever the departure state, the mode, the impact velocity and the state
\* of the principal Hugoniot (built or not).
C19_IntegratorsNeverRaise ==
    lib.kind \in {"MakeReshockHug", "MakeMGIsentrope"} => lib.ret \in {"True", "False"}

\* C20: MakeHugoniot completes normally, computes the Gamma array with
\* g0 = 1 and q = 1 when the material's g0 <= 0 and with the material's own
\* g0 and q otherwise, and leaves every parameter of the material as it was.
C20_MakeHugoniotKeepsParameters ==
    lib.kind = "MakeHugoniot" =>
        /\ lib.ret = "None"
        /\ mat[1].hug.garr =
              [k \in 1..Len(mat[1].hug.varr) |->
                  PowRatio(IF lib.before.g0 <= 0 THEN 10 ELSE lib.before.g0,
                           mat[1].hug.varr[k], lib.before.v0,
                           IF lib.before.g0 <= 0 THEN 1 ELSE lib.before.q)]
        /\ \A f \in Parameters : mat[1][f] = lib.before[f]


\* the isentrope's up, P, V, E and Gamma arrays are the principal Hugoniot's
IsentropeIsHugoniot ==
    /\ mat[1].isen.uparr = mat[1].hug.uparr
    /\ mat[1].isen.parr = mat[1].hug.parr
    /\ mat[1].isen.varr = mat[1].hug.varr
    /\ mat[1].isen.earr = mat[1].hug.earr
    /\ mat[1].isen.garr = mat[1].hug.garr

\* C23: MakeMGIsentrope in trivial mode, on a material whose principal
\* Hugoniot has been built on a grid of any length, returns True for every
\* departure state and sets the isentrope's arrays equal to the Hugoniot's.
C23_TrivialIsentropeAlwaysSucceeds ==
    lib.kind = "MakeMGIsentrope" /\ ~lib.usemgmodelbool /\ lib.before.hug.set
    => lib.ret = "True" /\ IsentropeIsHugoniot


\* the last call was MakeMGIsentrope in Mie-Grueneisen mode on a material
\* with a principal Hugoniot, departing from a pressure above its maximum
DepartureAboveHugoniot ==
    /\ lib.kind = "MakeMGIsentrope" /\ lib.usemgmodelbool
    /\ lib.before.hug.set
    /\ lib.arg.p > SeqMax(lib.before.hug.parr)

\* C24: MakeMGIsentrope in Mie-Grueneisen mode, called with a departure
\* pressure above the maximum pressure of the principal Hugoniot, returns
\* False and leaves the material's isentrope exactly as it was.
C24_DepartureAboveRangeFails ==
    DepartureAboveHugoniot => lib.ret = "False" /\ mat[1].isen = lib.before.isen

\* the call had an impact velocity and a Hugoniot of more than 10 samples, so
\* that it is the test of the departure pressure that stopped it
C24_Witness ==
    /\ DepartureAboveHugoniot
    /\ lib.vel > 0 /\ Len(lib.before.hug.parr) > 10
    /\ lib.ret = "False" /\ mat[1] = lib.before


\* the last call was MakeMGIsentrope in Mie-Grueneisen mode and it walked the
\* grid (lines 608-715)
IntegrationRan ==
    /\ lib.kind = "MakeMGIsentrope" /\ lib.usemgmodelbool /\ lib.ret = "True"
    /\ lib.before.hug.set /\ lib.vel > 0

\* istart: the first grid index whose Hugoniot pressure is above the
\* departure pressure (line 608)
DepartureIndex ==
    CHOOSE k \in 1..Len(mat[1].hug.parr) :
        /\ mat[1].hug.parr[k] > lib.arg.p
        /\ \A i \in 1..(k - 1) : mat[1].hug.parr[i] <= lib.arg.p

\* the isentrope's sample k is the departure state
ShortCircuited(k) ==
    /\ mat[1].isen.parr[k] = lib.arg.p
    /\ mat[1].isen.earr[k] = lib.arg.e
    /\ mat[1].isen.uparr[k] = lib.arg.up
    /\ mat[1].isen.uparr2[k] = lib.arg.up

\* the departure up is within 1e-5 relative of half the impact velocity:
\* |2*up/V - 1| < 1e-5
NearHalfVelocity ==
    (IF 2 * lib.arg.up >= lib.vel THEN 2 * lib.arg.up - lib.vel
     ELSE lib.vel - 2 * lib.arg.up) * 100000 < lib.vel

\* C25: in Mie-Grueneisen mode the first step away from the departure index,
\* in either direction, is short-circuited (isentrope point = departure state)
\* if and only if its signed volume step is <= 0 or the departure up is within
\* 1e-5 relative of half the impact velocity; otherwise the finite-difference
\* formulas are applied.
C25_ShortCircuitOnlyNearSymmetric ==
    IntegrationRan =>
        /\ ShortCircuited(DepartureIndex)
              <=> (lib.arg.v - mat[1].hug.varr[DepartureIndex] <= 0 \/ NearHalfVelocity)
        /\ DepartureIndex > 1 =>
              (ShortCircuited(DepartureIndex - 1)
                 <=> (mat[1].hug.varr[DepartureIndex - 1] - lib.arg.v <= 0
                        \/ NearHalfVelocity))


\* the last call was MakeMGIsentrope in Mie-Grueneisen mode and passed the
\* tests of lines 586-607, so that it walked the grid
WalkReached ==
    /\ lib.kind = "MakeMGIsentrope" /\ lib.usemgmodelbool
    /\ lib.before.hug.set /\ Len(lib.before.hug.parr) > 10
    /\ lib.vel > 0
    /\ lib.arg.p < SeqMax(lib.before.hug.parr)

\* the isentrope's sample k is marked undefined
UndefinedSample(k) ==
    /\ mat[1].isen.parr[k] = NaN
    /\ mat[1].isen.earr[k] = NaN
    /\ mat[1].isen.uparr[k] = NaN

\* the discriminant -(P_n - P_k)/(V_n - V_k) between the isentrope's sample k
\* and its neighbour n toward the departure index is positive
DiscriminantPositive(k, n) ==
    /\ mat[1].isen.parr[k] # NaN /\ mat[1].isen.parr[n] # NaN
    /\ \/ /\ mat[1].isen.parr[n] < mat[1].isen.parr[k]
          /\ mat[1].isen.varr[n] >= mat[1].isen.varr[k]
       \/ /\ mat[1].isen.parr[n] > mat[1].isen.parr[k]
          /\ mat[1].isen.varr[n] < mat[1].isen.varr[k]

\* walking toward the last index: beyond a defined sample, the next one has a
\* positive discriminant or it and all samples after it are undefined
UpwardBranchMarked ==
    \A k \in (DepartureIndex + 1)..Len(mat[1].isen.parr) :
        mat[1].isen.parr[k - 1] # NaN =>
            \/ DiscriminantPositive(k, k - 1)
            \/ \A i \in k..Len(mat[1].isen.parr) : UndefinedSample(i)

\* walking toward index 0, likewise
DownwardBranchMarked ==
    \A k \in 1..(DepartureIndex - 2) :
        mat[1].isen.parr[k + 1] # NaN =>
            \/ DiscriminantPositive(k, k + 1)
            \/ \A i \in 1..k : UndefinedSample(i)

\* C26: in Mie-Grueneisen mode, walking outward from the departure index in
\* either direction, at the first index where the discriminant is not
\* positive that sample and every remaining sample of the branch are marked
\* undefined (P, E, up), and the call returns True.
C26_NonPositiveDiscriminantMarksBranch ==
    WalkReached =>
        /\ lib.ret = "True"
        /\ UpwardBranchMarked
        /\ DownwardBranchMarked


\* the last call was MakeReshockHug in Mie-Grueneisen mode on a material with
\* a principal Hugoniot
ReshockIntegrated ==
    /\ lib.kind = "MakeReshockHug" /\ lib.usemgmodelbool
    /\ lib.before.hug.set

\* the reshock curve's sample k is marked undefined
ReshockUndefined(k) ==
    /\ mat[1].reshock.parr[k] = NaN
    /\ mat[1].reshock.earr[k] = NaN
    /\ mat[1].reshock.uparr[k] = NaN
    /\ mat[1].reshock.uparr2[k] = NaN

\* the reshock curve's sample k is defined in all of P, E and up
ReshockDefined(k) ==
    /\ mat[1].reshock.parr[k] # NaN
    /\ mat[1].reshock.earr[k] # NaN
    /\ mat[1].reshock.uparr[k] # NaN
    /\ mat[1].reshock.uparr2[k] # NaN

\* (P_k - P_depart)*(V_depart - V_k) > 0 for a pressure P at grid index k
PositiveProduct(P, k) ==
    \/ P > lib.arg.p /\ lib.arg.v > mat[1].hug.varr[k]
    \/ P < lib.arg.p /\ lib.arg.v < mat[1].hug.varr[k]

\* the M-G pressure computed for grid index k (line 751), 0 where none is
\* computed (line 743)
MGPressure(k) ==
    IF mat[1].hug.parr[k] > lib.arg.p
    THEN ReshockPressure(lib.before, k, lib.arg)
    ELSE 0

\* the M-G pressure at grid index k is at or above the departure pressure
\* and its product with the volume step is positive
PassesOwnChecks(k) ==
    /\ MGPressure(k) # NaN
    /\ MGPressure(k) >= lib.arg.p
    /\ PositiveProduct(MGPressure(k), k)

\* the grid point k is at or above the departure pressure and its M-G
\* pressure passes the three checks, the third against the M-G pressure of
\* the lower-index neighbour
PassesAllChecks(k) ==
    /\ mat[1].hug.parr[k] >= lib.arg.p
    /\ PassesOwnChecks(k)
    /\ (k > 1 /\ PassesOwnChecks(k - 1)) => MGPressure(k) >= MGPressure(k - 1)

\* C27: after MakeReshockHug in Mie-Grueneisen mode every sample of the
\* reshock curve that is not marked undefined has its pressure at or above the
\* departure pressure, (P_i - P_depart)*(V_depart - V_i) > 0, and a pressure
\* not lower than that of its lower-index neighbour where that one is
\* defined; and every grid point whose Hugoniot pressure is at or above the
\* departure pressure and whose pressure passes these checks (the third
\* against the pressure computed for the neighbour) is left defined.
C27_ReshockSamplesPassTheChecks ==
    ReshockIntegrated =>
        /\ lib.ret = "True"
        /\ \A k \in 1..Len(mat[1].reshock.parr) :
              /\ ReshockUndefined(k) \/ ReshockDefined(k)
              /\ ReshockDefined(k) =>
                    /\ mat[1].reshock.parr[k] >= lib.arg.p
                    /\ PositiveProduct(mat[1].reshock.parr[k], k)
                    /\ (k > 1 /\ ReshockDefined(k - 1)) =>
                          mat[1].reshock.parr[k] >= mat[1].reshock.parr[k - 1]
              /\ PassesAllChecks(k) =>
                    ReshockDefined(k) /\ mat[1].reshock.parr[k] = MGPressure(k)

=============================================================================
